---- MODULE Spec2Model ----
(***************************************************************************)
(* Model of the vSphere server plugin (vsphere_server_plugin/server.py):   *)
(* the VM name resolver, the network topology resolver and the lifecycle   *)
(* operations over the persisted runtime properties of one node instance.  *)
(*                                                                         *)
(* Python values are encoded as follows.                                   *)
(*   - a string that the code inspects character by character (VM names,   *)
(*     instance ids) is a sequence of one-character strings;               *)
(*   - an optional value is <<>> for None / absent and <<v>> otherwise;    *)
(*   - a dict is a function whose DOMAIN is the set of keys present;       *)
(*   - a value of a network dict, whose Python type matters, is a record   *)
(*     [t |-> type name, v |-> text].                                      *)
(***************************************************************************)
EXTENDS Integers, Sequences, FiniteSets, TLC

VARIABLES rt, vms, call, cfg, nm, nw

vars == <<rt, vms, call, cfg, nm, nw>>

(***************************************************************************)
(* Bounds of the model.                                                    *)
(***************************************************************************)
\* longest configured name / instance base name made of one repeated character
MaxNameLen == 16
\* longest instance id suffix (the part after the last underscore)
MaxSuffixLen == 14
\* longest name built from every combination of the characters of NameChars
MaxMixedLen == 2
\* most declared networks of a networking input
MaxNets == 3
\* most related NICs of an instance
MaxRels == 2

(***************************************************************************)
(* Optional values and dicts.                                              *)
(***************************************************************************)
None == <<>>

Some(v) == <<v>>

Val(o) == o[1]

\* F applied to the value v: a local name for a result that is used more
\* than once
Bind(v, F(_)) == F(v)

\* dict.get(key, default)
Get(d, k, default) == IF k \in DOMAIN d THEN d[k] ELSE default

(***************************************************************************)
(* Strings as sequences of characters.                                     *)
(***************************************************************************)
AlphaChars == {"a", "b", "d", "m", "v", "w", "A"}

DigitChars == {"0", "1", "2", "4"}

\* the characters names are built from: a letter, a digit, the underscore,
\* the hyphen and a character no computer name may hold
NameChars == {"a", "1", "_", "-", "!"}

\* c repeated n times
Rep(c, n) == [i \in 1..n |-> c]

\* all sequences over S of length at most n
SeqsUpTo(S, n) == UNION {[1..k -> S] : k \in 0..n}

\* Python s[:n]: the first n characters, and for a negative n all but the
\* last -n characters
SliceTo(s, n) ==
  IF n >= 0
    THEN SubSeq(s, 1, IF n < Len(s) THEN n ELSE Len(s))
    ELSE SubSeq(s, 1, IF Len(s) + n > 0 THEN Len(s) + n ELSE 0)

\* Python s.replace(a, b) for one-character a and b
Replace(s, a, b) == [i \in 1..Len(s) |-> IF s[i] = a THEN b ELSE s[i]]

\* Python s.rsplit('_', 1) of a string that holds an underscore
RSplit(s) ==
  LET i == CHOOSE j \in 1..Len(s) :
             /\ s[j] = "_"
             /\ \A k \in (j + 1)..Len(s) : s[k] # "_"
  IN <<SubSeq(s, 1, i - 1), SubSeq(s, i + 1, Len(s))>>

\* Python s.lower() of an os_family
Lower(s) == IF s = "Windows" THEN "windows" ELSE s

\* re.compile(r'[^A-Za-z0-9\-]').search(vm_name)
HasIllegalChar(s) ==
  \E i \in 1..Len(s) : s[i] \notin (AlphaChars \cup DigitChars \cup {"-"})

(***************************************************************************)
(* Identity resolver.                                                      *)
(***************************************************************************)
\* validate_vm_name: TRUE when it raises NonRecoverableError
validate_vm_name(vm_name) == HasIllegalChar(vm_name)

\* os_family None
NoOsFamily == "None"

\* the exception of a method call on None
AttributeError == "AttributeError"

NoError == "ok"

NonRecoverableError == "NonRecoverableError"

\* an exception the code does not raise itself (a dict lookup that fails)
KeyError == "KeyError"

\* get_vm_name(server, os_family) when no name is persisted, for the instance
\* id `instance_id`: [err, name]
resolve_vm_name(instance_id, server, os_family) ==
  LET configured_name == Get(server, "name", None)
      add_scale_suffix == Get(server, "add_scale_suffix", TRUE)
  IN IF configured_name # None /\ ~add_scale_suffix
       THEN [err |-> NoError, name |-> Val(configured_name)]
       ELSE IF os_family = NoOsFamily
         THEN [err |-> AttributeError, name |-> <<>>]
       ELSE
         LET parts == RSplit(instance_id)
             instance_name == parts[1]
             id_suffix == parts[2]
             name_prefix ==
               IF configured_name # None /\ Val(configured_name) # <<>>
                 THEN Val(configured_name)
                 ELSE instance_name
             cut_prefix ==
               IF Lower(os_family) = "windows"
                 THEN SliceTo(name_prefix, 14 - (Len(id_suffix) + 1))
                 ELSE name_prefix
             joined == cut_prefix \o <<"-">> \o id_suffix
             vm_name == Replace(joined, "_", "-")
         IN IF validate_vm_name(vm_name)
              THEN [err |-> NonRecoverableError, name |-> <<>>]
              ELSE [err |-> NoError, name |-> vm_name]

\* get_vm_name without the look-up of the persisted name
get_vm_name_not_persisted(persisted, instance_id, server, os_family) ==
  resolve_vm_name(instance_id, server, os_family)

\* get_vm_name(server, os_family) for the persisted name `persisted` and the
\* instance id `instance_id`: [err, name]
get_vm_name(persisted, instance_id, server, os_family) ==
  IF persisted # None
    THEN [err |-> NoError, name |-> Val(persisted)]
    ELSE resolve_vm_name(instance_id, server, os_family)

(***************************************************************************)
(* Values of a network dict.                                               *)
(***************************************************************************)
Str(s) == [t |-> "str", v |-> s]

PyTrue == [t |-> "bool", v |-> "True"]

PyFalse == [t |-> "bool", v |-> "False"]

PyNone == [t |-> "none", v |-> "None"]

PyInt(s) == [t |-> "int", v |-> s]

\* Python truth value
Truthy(x) ==
  CASE x.t = "bool" -> x.v = "True"
    [] x.t = "str" -> x.v # ""
    [] x.t = "int" -> x.v # "0"
    [] OTHER -> FALSE

\* dict.update(other)
Update(d, other) ==
  [k \in DOMAIN d \cup DOMAIN other |-> IF k \in DOMAIN other THEN other[k] ELSE d[k]]

\* d[k] = x
Put(d, k, x) == [j \in DOMAIN d \cup {k} |-> IF j = k THEN x ELSE d[j]]

(***************************************************************************)
(* Network topology resolver: validation of one network.                   *)
(***************************************************************************)
\* the keys of network_validations
SchemaKeys ==
  {"name", "from_relationship", "external", "management", "switch_distributed",
   "nsx_t_switch", "use_dhcp", "network", "gateway", "ip"}

\* network_validations[key][0]
ExpectedType(key) ==
  IF key \in {"name", "network", "gateway", "ip"} THEN "str" ELSE "bool"

\* defaults that are False for every boolean key
DefaultValue_dhcp_off(key) ==
  IF key \in {"name", "network", "gateway", "ip"} THEN PyNone ELSE PyFalse

\* network_validations[key][1]
DefaultValue(key) ==
  IF key \in {"name", "network", "gateway", "ip"} THEN PyNone
  ELSE IF key = "use_dhcp" THEN PyTrue
  ELSE PyFalse

\* the order in which _network.items() yields the keys of a dict
KeyOrder ==
  <<"name", "from_relationship", "external", "management", "switch_distributed",
    "nsx_t_switch", "use_dhcp", "network", "gateway", "ip", "bogus", "mtu">>

Items(d) == SelectSeq(KeyOrder, LAMBDA k : k \in DOMAIN d)

Msg(kind, key) == [kind |-> kind, key |-> key]

\* the checks made before the loop, stopping at the first that fails
validate_head_first_only(_network) ==
  LET both == /\ Truthy(Get(_network, "switch_distributed", PyNone))
              /\ Truthy(Get(_network, "nsx_t_switch", PyNone))
      noname == ~Truthy(Get(_network, "name", PyNone))
  IN [net |-> _network,
      validations |-> IF noname THEN SchemaKeys \ {"name"} ELSE SchemaKeys,
      msgs |-> IF both THEN <<Msg("both_switches", "")>>
               ELSE IF noname THEN <<Msg("no_name", "")>> ELSE <<>>]

\* the checks made before the loop: both switch kinds, missing name
validate_head(_network) ==
  LET both == /\ Truthy(Get(_network, "switch_distributed", PyNone))
              /\ Truthy(Get(_network, "nsx_t_switch", PyNone))
      noname == ~Truthy(Get(_network, "name", PyNone))
  IN [net |-> _network,
      validations |-> IF noname THEN SchemaKeys \ {"name"} ELSE SchemaKeys,
      msgs |-> (IF both THEN <<Msg("both_switches", "")>> ELSE <<>>)
               \o (IF noname THEN <<Msg("no_name", "")>> ELSE <<>>)]

\* one turn of the loop over _network.items()
validate_item(st, key) ==
  IF key \notin st.validations
    THEN [st EXCEPT !.msgs = Append(@, Msg("unsupported_key", key))]
    ELSE
      LET popped == [st EXCEPT !.validations = @ \ {key}]
          value == st.net[key]
      IN IF ~Truthy(value) /\ ExpectedType(key) # "bool"
           THEN [popped EXCEPT !.net = Put(@, key, DefaultValue(key))]
           ELSE IF value.t # ExpectedType(key)
             THEN [popped EXCEPT !.msgs = Append(@, Msg("unsupported_type", key))]
             ELSE popped

RECURSIVE validate_loop(_, _)
validate_loop(st, keys) ==
  IF keys = <<>> THEN st
  ELSE validate_loop(validate_item(st, Head(keys)), Tail(keys))

\* validate_connect_network(_network): [err, msgs, net]; err is TRUE when it
\* raises NonRecoverableError(msgs), and net is the dict as it is left
validate_connect_network(_network) ==
  Bind(validate_loop(validate_head(_network), Items(_network)),
       LAMBDA st :
         IF st.msgs # <<>>
           THEN [err |-> TRUE, msgs |-> st.msgs, net |-> st.net]
           ELSE [err |-> FALSE, msgs |-> <<>>,
                 net |-> [k \in DOMAIN st.net \cup st.validations |->
                            IF k \in st.validations THEN DefaultValue(k)
                                                    ELSE st.net[k]]])

(***************************************************************************)
(* Network topology resolver: merge of the declared networks with the      *)
(* networks of the related NICs, constraints and ordering.                 *)
(* A related NIC is [id, connected_network, name]: its instance id and     *)
(* the runtime properties 'connected_network' (optional dict) and 'name'.  *)
(***************************************************************************)
\* the loop over nics_from_props for one related network: [err, nets]
RECURSIVE merge_into_props(_, _, _)
merge_into_props(nets, i, _connect_network) ==
  IF i > Len(nets) THEN [err |-> NoError, nets |-> nets]
  ELSE IF "name" \notin DOMAIN nets[i] THEN [err |-> KeyError, nets |-> nets]
  ELSE IF /\ _connect_network["name"] = nets[i]["name"]
          /\ Truthy(Get(nets[i], "from_relationship", PyNone))
    THEN merge_into_props([nets EXCEPT ![i] = Update(@, _connect_network)],
                          i + 1, _connect_network)
    ELSE merge_into_props(nets, i + 1, _connect_network)

\* one turn of the loop over nics_from_rels; st is [err, what, nets, nics]
connect_rel_nic(st, rel_nic) ==
  IF rel_nic.connected_network = None \/ DOMAIN Val(rel_nic.connected_network) = {}
    THEN [st EXCEPT !.err = NonRecoverableError, !.what = "no_connect_network"]
    ELSE
      LET spec == Val(rel_nic.connected_network)
          connected_network_name ==
            IF "name" \in DOMAIN spec THEN spec["name"]
            ELSE IF rel_nic.name = None THEN PyNone ELSE Val(rel_nic.name)
      IN IF ~Truthy(connected_network_name)
           THEN [st EXCEPT !.err = NonRecoverableError, !.what = "no_network_name"]
           ELSE
             Bind(Put(spec, "name", connected_network_name),
                  LAMBDA _connect_network :
                    Bind(merge_into_props(st.nets, 1, _connect_network),
                         LAMBDA merged :
                           IF merged.err # NoError
                             THEN [st EXCEPT !.err = merged.err,
                                             !.what = "name"]
                             ELSE [st EXCEPT
                                     !.nets = Append(merged.nets,
                                                     _connect_network),
                                     !.nics = Append(@, rel_nic.id)]))

RECURSIVE connect_rel_nics(_, _)
connect_rel_nics(st, rels) ==
  IF rels = <<>> \/ st.err # NoError THEN st
  ELSE connect_rel_nics(connect_rel_nic(st, Head(rels)), Tail(rels))

\* get_connected_networks(nics_from_props) for the persisted connected-NICs
\* list `nics` (optional) and the related NICs `rels`: [err, what, nets, nics]
get_connected_networks(nics, rels, nics_from_props) ==
  connect_rel_nics([err |-> NoError, what |-> "",
                    nets |-> nics_from_props,
                    nics |-> IF nics = None THEN <<>> ELSE Val(nics)],
                   rels)

\* the count that looks at the first network only
CountFlag_of_first(nets, flag) ==
  Cardinality({i \in 1..Len(nets) :
                 i = 1 /\ Truthy(Get(nets[i], flag, PyFalse))})

\* len([n for n in connect_networks if n.get(flag, False)])
CountFlag(nets, flag) ==
  Cardinality({i \in 1..Len(nets) : Truthy(Get(nets[i], flag, PyFalse))})

\* the loop that appends every network, the external one too
RECURSIVE reorder_networks_appending(_, _)
reorder_networks_appending(reordered_networks, rest) ==
  IF rest = <<>>
    THEN [err |-> NoError, msgs |-> <<>>, nets |-> reordered_networks]
    ELSE
      Bind(validate_connect_network(Head(rest)),
           LAMBDA v :
             IF v.err
               THEN [err |-> NonRecoverableError, msgs |-> v.msgs,
                     nets |-> <<>>]
               ELSE reorder_networks_appending(
                      Append(reordered_networks, v.net), Tail(rest)))

\* the validate-and-reorder loop of handle_networks: [err, msgs, nets]
RECURSIVE reorder_networks(_, _)
reorder_networks(reordered_networks, rest) ==
  IF rest = <<>>
    THEN [err |-> NoError, msgs |-> <<>>, nets |-> reordered_networks]
    ELSE
      Bind(validate_connect_network(Head(rest)),
           LAMBDA v :
             IF v.err
               THEN [err |-> NonRecoverableError, msgs |-> v.msgs,
                     nets |-> <<>>]
               ELSE IF Truthy(v.net["external"])
                 THEN reorder_networks(<<v.net>> \o reordered_networks,
                                       Tail(rest))
                 ELSE reorder_networks(Append(reordered_networks, v.net),
                                       Tail(rest)))

\* handle_networks(networking_parameters): [err, what, msgs, nets, nics];
\* nets is the returned list and nics the connected-NICs list as persisted
handle_networks(nics, rels, networking_parameters) ==
  Bind(get_connected_networks(
         nics, rels, Get(networking_parameters, "connect_networks", <<>>)),
       LAMBDA g :
         Bind([err |-> g.err, what |-> g.what, msgs |-> <<>>,
               nets |-> <<>>, nics |-> Some(g.nics)],
              LAMBDA out :
                IF g.err # NoError THEN out
                ELSE IF g.nets = <<>> THEN out
                ELSE IF CountFlag(g.nets, "external") > 1
                  THEN [out EXCEPT !.err = NonRecoverableError,
                                   !.what = "external"]
                ELSE IF CountFlag(g.nets, "management") > 1
                  THEN [out EXCEPT !.err = NonRecoverableError,
                                   !.what = "management"]
                ELSE
                  Bind(reorder_networks(<<>>, g.nets),
                       LAMBDA r :
                         IF r.err # NoError
                           THEN [out EXCEPT !.err = r.err,
                                            !.what = "validation",
                                            !.msgs = r.msgs]
                           ELSE [out EXCEPT !.nets = r.nets])))

(***************************************************************************)
(* The platform client (vsphere_plugin_common, not part of the modelled    *)
(* sources): the VMs of the platform are the sequence vms, a VM's id is    *)
(* its index (ids are never reused), its state is "on", "off" or, once     *)
(* removed, "gone", and its origin tells whether the plugin created it.    *)
(***************************************************************************)
\* most VMs the platform ever holds
MaxVms == 2
\* longest persisted connected-NICs list
MaxNics == 2

Exists(id) == id \in 1..Len(vms) /\ vms[id].state # "gone"

\* server_client.get_server_by_id(id): the object or None
get_server_by_id(id) == IF Exists(id) THEN Some(id) ELSE None

\* server_client.get_server_by_name(name): the objects it may return
get_server_by_name(name) ==
  LET hits == {id \in 1..Len(vms) : Exists(id) /\ Some(vms[id].name) = name}
  IN IF hits = {} THEN {None} ELSE {Some(id) : id \in hits}

\* server_client.create_server(vm_name=..., enable_start_vm=...)
create_server(vm_name, enable_start_vm) ==
  Append(vms, [name |-> vm_name,
               state |-> IF enable_start_vm THEN "on" ELSE "off",
               origin |-> "plugin"])

\* server_client.start_server / stop_server / delete_server
set_state(id, state) == [vms EXCEPT ![id].state = state]

PlatformError == "PlatformError"

\* where a platform call of an operation may fail
FailPoints == {"none", "create_refused", "create_task", "post", "power"}

(***************************************************************************)
(* Lifecycle orchestrator.                                                 *)
(***************************************************************************)
\* ctx.instance.id
InstanceId == <<"w", "_", "0", "1">>

\* get_server_by_context that looks a server up by its persisted id only
get_server_by_context_by_id_only(server, os_family) ==
  [err |-> NoError, what |-> "",
   objs |-> {IF rt.vsphere_server_id # None
               THEN get_server_by_id(Val(rt.vsphere_server_id))
               ELSE None},
   vm_name |-> None]

\* get_server_by_context(server_client, server, os_family):
\* [err, what, objs, vm_name]; objs are the objects the look-up may return
get_server_by_context(server, os_family) ==
  IF rt.vsphere_server_id # None
    THEN [err |-> NoError, what |-> "",
          objs |-> {get_server_by_id(Val(rt.vsphere_server_id))},
          vm_name |-> None]
    ELSE IF os_family # NoOsFamily /\ os_family # ""
      THEN Bind(get_vm_name(rt.name, InstanceId, server, os_family),
                LAMBDA n :
                  IF n.err # NoError
                    THEN [err |-> n.err, what |-> "name", objs |-> {},
                          vm_name |-> None]
                    ELSE [err |-> NoError, what |-> "",
                          objs |-> get_server_by_name(Some(n.name)),
                          vm_name |-> Some(n.name)])
      ELSE [err |-> NonRecoverableError, what |-> "os_family", objs |-> {},
            vm_name |-> None]

\* the look-up at the head of create and of start: [err, what, objs, vm_name,
\* external]; external is TRUE when the instance is marked externally managed
find_server(server, os_family, use_external_resource) ==
  IF use_external_resource /\ "name" \in DOMAIN server
    THEN Bind(get_server_by_name(server["name"]) \ {None},
              LAMBDA objs :
                IF objs = {}
                  THEN [err |-> NonRecoverableError, what |-> "not_found",
                        objs |-> {}, vm_name |-> None, external |-> FALSE]
                  ELSE [err |-> NoError, what |-> "", objs |-> objs,
                        vm_name |-> None, external |-> TRUE])
    ELSE IF "template" \notin DOMAIN server /\ "clone_vm" \notin DOMAIN server
      THEN [err |-> NonRecoverableError, what |-> "no_template",
            objs |-> {}, vm_name |-> None, external |-> FALSE]
      ELSE [external |-> FALSE] @@ get_server_by_context(server, os_family)

\* create_new_server(...) at the runtime properties r:
\* [err, what, rt, vms, calls, obj, vm_name]
create_new_server(r, server, networking, os_family, rels, enable_start_vm, fail) ==
  Bind(get_vm_name(r.name, InstanceId, server, os_family), LAMBDA n :
  Bind(handle_networks(r.connected_nics, rels, networking), LAMBDA h :
  Bind([r EXCEPT !.connected_nics = h.nics], LAMBDA r2 :
  Bind([err |-> NoError, what |-> "", rt |-> r, vms |-> vms,
        calls |-> <<>>, obj |-> None, vm_name |-> None], LAMBDA out :
    IF n.err # NoError
      THEN [out EXCEPT !.err = n.err, !.what = "name"]
    ELSE IF h.err # NoError
      THEN [out EXCEPT !.err = h.err, !.what = h.what, !.rt = r2,
                       !.vm_name = Some(n.name)]
    ELSE IF fail = "create_refused"
      THEN [out EXCEPT !.err = PlatformError, !.what = "create_server",
                       !.rt = r2, !.calls = <<"create_server">>,
                       !.vm_name = Some(n.name)]
    ELSE IF fail = "create_task"
      THEN [out EXCEPT !.err = PlatformError, !.what = "create_server",
                       !.rt = r2, !.calls = <<"create_server">>,
                       !.vms = create_server(n.name, enable_start_vm),
                       !.vm_name = Some(n.name)]
    ELSE [out EXCEPT !.rt = r2, !.calls = <<"create_server">>,
                     !.vms = create_server(n.name, enable_start_vm),
                     !.obj = Some(Len(vms) + 1),
                     !.vm_name = Some(n.name)]))))

\* store_server_details that stores the name and not the id
store_server_details_name_only(r, v, server_obj) ==
  [r EXCEPT !.name = Some(v[server_obj].name)]

\* store_server_details(server_client, server_obj) at the runtime properties r
\* and the platform state v
store_server_details(r, v, server_obj) ==
  [r EXCEPT !.vsphere_server_id = Some(server_obj),
            !.name = Some(v[server_obj].name)]

\* the tail of create and of start, from add_custom_values on, for the
\* result st of the steps before it: [err, what, rt, vms, calls, obj, vm_name]
finish_server(st, fail) ==
  IF fail = "post"
    THEN [st EXCEPT !.err = PlatformError, !.what = "add_custom_values",
                    !.calls = Append(@, "add_custom_values")]
    ELSE
      [st EXCEPT
         !.calls = @ \o <<"add_custom_values", "upgrade_server">>
                     \o (IF st.rt.keys_for_remove
                           THEN <<"remove_nic_keys">> ELSE <<>>),
         !.rt = store_server_details([@ EXCEPT !.keys_for_remove = FALSE],
                                     st.vms, Val(st.obj))]

\* the record of an operation's invocation: its name, how it ended (result,
\* what), the platform calls it made, its force flag, the persisted name it
\* started from, the object its look-up found, the object it worked on and
\* the name get_vm_name gave it
Invocation(op, result, what, calls, force, found, obj, vm_name) ==
  [op |-> op, result |-> result, what |-> what, calls |-> calls,
   force |-> force, persisted |-> rt.name, found |-> found, obj |-> obj,
   vm_name |-> vm_name]

\* no operation is recorded
Idle == Invocation("none", NoError, "", <<>>, FALSE, None, None, None)

\* a start that powers the VM on whatever enable_start_vm is
provision_powers_on(op, f, pick, server, networking, os_family, rels, enable_start_vm, fail) ==
  Bind([rt EXCEPT !.external = @ \/ f.external], LAMBDA r1 :
  Bind([err |-> NoError, what |-> "", rt |-> r1, vms |-> vms,
        calls |-> <<>>, obj |-> pick, vm_name |-> f.vm_name], LAMBDA located :
  Bind(IF pick = None
         THEN create_new_server(r1, server, networking, os_family, rels,
                                enable_start_vm, fail)
       ELSE IF op = "create" THEN located
       ELSE IF fail = "power"
         THEN [located EXCEPT !.err = PlatformError, !.what = "start_server",
                              !.calls = <<"update_server", "start_server">>]
       ELSE [located EXCEPT !.calls = <<"update_server", "start_server">>,
                            !.vms = set_state(Val(pick), "on")],
       LAMBDA st1 :
         IF st1.err # NoError THEN st1 ELSE finish_server(st1, fail))))

\* the step of create and of start after the look-up found `pick`
provision(op, f, pick, server, networking, os_family, rels, enable_start_vm, fail) ==
  Bind([rt EXCEPT !.external = @ \/ f.external], LAMBDA r1 :
  Bind([err |-> NoError, what |-> "", rt |-> r1, vms |-> vms,
        calls |-> <<>>, obj |-> pick, vm_name |-> f.vm_name], LAMBDA located :
  Bind(IF pick = None
         THEN create_new_server(r1, server, networking, os_family, rels,
                                enable_start_vm, fail)
       ELSE IF op = "create" THEN located
       ELSE IF ~enable_start_vm
         THEN [located EXCEPT !.calls = <<"update_server">>]
       ELSE IF fail = "power"
         THEN [located EXCEPT !.err = PlatformError, !.what = "start_server",
                              !.calls = <<"update_server", "start_server">>]
       ELSE [located EXCEPT !.calls = <<"update_server", "start_server">>,
                            !.vms = set_state(Val(pick), "on")],
       LAMBDA st1 :
         IF st1.err # NoError THEN st1 ELSE finish_server(st1, fail))))

\* the bounds of the model hold of the result st of an operation
Within(st) ==
  /\ Len(st.vms) <= MaxVms
  /\ IF st.rt.connected_nics = None THEN TRUE
     ELSE Len(Val(st.rt.connected_nics)) <= MaxNics

\* the check at the head of create: nothing to do for empty properties
create_ignored(server, networking) ==
  /\ DOMAIN server = {} \/ DOMAIN server = {"add_scale_suffix"}
  /\ DOMAIN networking = {}

\* the operation create
create(server, networking, os_family, use_external_resource, rels, fail) ==
  IF create_ignored(server, networking)
    THEN /\ call' = Invocation("create", NoError, "ignored", <<>>, FALSE,
                               None, None, None)
         /\ UNCHANGED <<rt, vms, cfg, nm, nw>>
    ELSE
      \E f \in {find_server(server, os_family, use_external_resource)} :
         IF f.err # NoError
           THEN /\ call' = Invocation("create", f.err, f.what, <<>>, FALSE,
                                      None, None, None)
                /\ UNCHANGED <<rt, vms, cfg, nm, nw>>
           ELSE \E pick \in f.objs :
                \E st \in {provision("create", f, pick, server, networking,
                                      os_family, rels, FALSE, fail)} :
                     /\ Within(st)
                     /\ rt' = st.rt
                     /\ vms' = st.vms
                     /\ call' = Invocation("create", st.err, st.what, st.calls,
                                           FALSE, pick, st.obj, st.vm_name)
                     /\ UNCHANGED <<cfg, nm, nw>>

\* the operation start
start(server, networking, os_family, use_external_resource, rels, enable_start_vm, fail) ==
  \E f \in {find_server(server, os_family, use_external_resource)} :
     IF f.err # NoError
       THEN /\ call' = Invocation("start", f.err, f.what, <<>>, FALSE,
                                  None, None, None)
            /\ UNCHANGED <<rt, vms, cfg, nm, nw>>
       ELSE \E pick \in f.objs :
            \E st \in {provision("start", f, pick, server, networking,
                                  os_family, rels, enable_start_vm, fail)} :
                 /\ Within(st)
                 /\ rt' = st.rt
                 /\ vms' = st.vms
                 /\ call' = Invocation("start", st.err, st.what, st.calls,
                                       FALSE, pick, st.obj, st.vm_name)
                              @@ [enable_start_vm |-> enable_start_vm]
                 /\ UNCHANGED <<cfg, nm, nw>>

\* the guard without its force flag
used_existing_whatever_force(force) == rt.external

\* the guard at the head of stop and of delete: a pre-existing resource is
\* left alone unless the operation is forced
used_existing(force) == rt.external /\ ~force

\* stop, when the look-up finds no object: the error it raises, if any
stop_missing ==
  IF rt.vsphere_server_id # None THEN NonRecoverableError ELSE NoError

\* delete that treats a missing object as stop does
delete_missing_as_stop == stop_missing

\* delete, when the look-up finds no object: the error it raises, if any
delete_missing == NoError

\* stop and delete after the guard: the look-up, the missing-resource branch
\* and the platform call that takes the VM to `state`
power_down(op, platform_call, state, missing, server, os_family, force, fail) ==
  \E f \in {get_server_by_context(server, os_family)} :
     IF f.err # NoError
       THEN /\ call' = Invocation(op, f.err, f.what, <<>>, force,
                                  None, None, None)
            /\ UNCHANGED <<rt, vms, cfg, nm, nw>>
       ELSE \E pick \in f.objs :
              IF pick = None
                THEN /\ call' = Invocation(op, missing, "missing", <<>>, force,
                                           None, None, f.vm_name)
                     /\ UNCHANGED <<rt, vms, cfg, nm, nw>>
                ELSE
                  \E n \in {get_vm_name(rt.name, InstanceId, server,
                                         os_family)} :
                     IF n.err # NoError
                       THEN /\ call' = Invocation(op, n.err, "name", <<>>, force,
                                                  pick, pick, None)
                            /\ UNCHANGED <<rt, vms, cfg, nm, nw>>
                       ELSE /\ call' = Invocation(
                                         op,
                                         IF fail = "power" THEN PlatformError
                                                           ELSE NoError,
                                         platform_call, <<platform_call>>, force,
                                         pick, pick, Some(n.name))
                            /\ vms' = IF fail = "power" THEN vms
                                      ELSE set_state(Val(pick), state)
                            /\ UNCHANGED <<rt, cfg, nm, nw>>

\* the operation stop
stop(server, os_family, force_stop, fail) ==
  IF used_existing(force_stop)
    THEN /\ call' = Invocation("stop", NoError, "used_existing", <<>>,
                               force_stop, None, None, None)
         /\ UNCHANGED <<rt, vms, cfg, nm, nw>>
    ELSE power_down("stop", "stop_server", "off", stop_missing,
                    server, os_family, force_stop, fail)

\* the operation delete
delete(server, os_family, force_delete, fail) ==
  IF used_existing(force_delete)
    THEN /\ call' = Invocation("delete", NoError, "used_existing", <<>>,
                               force_delete, None, None, None)
         /\ UNCHANGED <<rt, vms, cfg, nm, nw>>
    ELSE power_down("delete", "delete_server", "gone", delete_missing,
                    server, os_family, force_delete, fail)

\* the platform, not the plugin, removes a VM
vm_removed(id) ==
  /\ Exists(id)
  /\ vms' = set_state(id, "gone")
  /\ call' = Idle
  /\ UNCHANGED <<rt, cfg, nm, nw>>

(***************************************************************************)
(* The inputs of the lifecycle operations. The node's properties (server,  *)
(* networking, os_family, use_external_resource) and the instance's        *)
(* relationships are the same at every invocation: they are cfg. stop and  *)
(* delete are also invoked with a server and an os_family that differ from *)
(* the node's.                                                             *)
(***************************************************************************)
\* the name of a VM that exists before the instance does
ExternalName == <<"d", "b">>

Servers ==
  {<<>>,
   "add_scale_suffix" :> TRUE,
   "template" :> "tpl",
   "name" :> Some(ExternalName),
   "name" :> Some(ExternalName) @@ "template" :> "tpl",
   "name" :> Some(ExternalName) @@ "add_scale_suffix" :> FALSE
     @@ "clone_vm" :> "src",
   "name" :> Some(ExternalName) @@ "add_scale_suffix" :> FALSE,
   "name" :> Some(<<"a", "!">>) @@ "template" :> "tpl"}

\* a server passed to stop and delete in place of the node's
OtherServers ==
  {"name" :> Some(<<"v", "m">>) @@ "add_scale_suffix" :> FALSE
     @@ "template" :> "tpl"}

OsFamilies == {"linux", "windows", NoOsFamily}

NetA == "name" :> Str("a")

NetB == "name" :> Str("b") @@ "external" :> PyTrue

NetC == "name" :> Str("c") @@ "external" :> PyTrue @@ "management" :> PyTrue

RelNic(id, connected_network, name) ==
  [id |-> id, connected_network |-> connected_network, name |-> name]

Configuration(server, topology, os_family, use_external_resource) ==
  [server |-> server, networking |-> topology.networking,
   rels |-> topology.rels, os_family |-> os_family,
   use_external_resource |-> use_external_resource]

\* two valid declared networks
PlainTopology ==
  [networking |-> "connect_networks" :> <<NetA, NetB>>, rels |-> <<>>]

\* no networking at all, a declared and a related network, two external
\* networks
OtherTopologies ==
  {[networking |-> <<>>, rels |-> <<>>],
   [networking |-> "connect_networks" :> <<NetB>>,
    rels |-> <<RelNic("nic1", Some(NetA), None)>>],
   [networking |-> "connect_networks" :> <<NetB, NetC>>, rels |-> <<>>]}

\* every server, os_family and use_external_resource with the plain
\* topology, and the other topologies with the servers that lead to a look-up
Configurations ==
  {Configuration(s, PlainTopology, o, u) :
     s \in Servers, o \in OsFamilies, u \in BOOLEAN}
  \cup
  {Configuration(s, t, "linux", FALSE) :
     s \in {<<>>, "add_scale_suffix" :> TRUE, "template" :> "tpl"},
     t \in OtherTopologies}

NoConfiguration ==
  [server |-> <<>>, networking |-> <<>>, rels |-> <<>>,
   os_family |-> NoOsFamily, use_external_resource |-> FALSE]

\* the VMs of the platform before the first operation
InitialVms ==
  {<<>>,
   <<[name |-> ExternalName, state |-> "on", origin |-> "platform"]>>,
   <<[name |-> <<"w", "-", "0", "1">>, state |-> "off",
      origin |-> "platform"]>>}

NoRuntimeProperties ==
  [vsphere_server_id |-> None, name |-> None, external |-> FALSE,
   connected_nics |-> None, keys_for_remove |-> FALSE]

NoCall ==
  [op |-> "none", result |-> NoError, what |-> "", calls |-> <<>>,
   force |-> FALSE, persisted |-> None, found |-> None, obj |-> None,
   vm_name |-> None]

NoName == [phase |-> "idle"]

\* no validation result and no resolution result
NoValidation == [err |-> FALSE, msgs |-> <<>>, net |-> <<>>]

NoResolution ==
  [err |-> NoError, what |-> "", msgs |-> <<>>, nets |-> <<>>, nics |-> None]

NoNet ==
  [phase |-> "idle", op |-> "none", net |-> <<>>, networking |-> <<>>,
   rels |-> <<>>, nics |-> None, v |-> NoValidation, h |-> NoResolution]

Init ==
  /\ rt \in {[NoRuntimeProperties EXCEPT !.keys_for_remove = k] : k \in BOOLEAN}
  /\ vms \in InitialVms
  /\ call = NoCall
  /\ cfg \in Configurations
  /\ nm = NoName
  /\ nw = NoNet

Create ==
  \E fail \in {"none", "create_refused", "create_task", "post"} :
    create(cfg.server, cfg.networking, cfg.os_family,
           cfg.use_external_resource, cfg.rels, fail)

Start ==
  \E enable_start_vm \in BOOLEAN, fail \in FailPoints :
    start(cfg.server, cfg.networking, cfg.os_family,
          cfg.use_external_resource, cfg.rels, enable_start_vm, fail)

Stop ==
  \E server \in {cfg.server} \cup OtherServers, os_family \in OsFamilies,
     force_stop \in BOOLEAN, fail \in {"none", "power"} :
    stop(server, os_family, force_stop, fail)

Delete ==
  \E server \in {cfg.server} \cup OtherServers, os_family \in OsFamilies,
     force_delete \in BOOLEAN, fail \in {"none", "power"} :
    delete(server, os_family, force_delete, fail)

VmRemoved == \E id \in 1..Len(vms) : vm_removed(id)

Next == Create \/ Start \/ Stop \/ Delete \/ VmRemoved

Spec == Init /\ [][Next]_vars

(***************************************************************************)
(* Properties of the lifecycle operations, checked under Spec.             *)
(***************************************************************************)
\* a platform VM exists for the instance: the one the persisted id names or,
\* when no id is persisted, one that bears the name the node's properties
\* resolve to
VmExistsForInstance ==
  IF rt.vsphere_server_id # None
    THEN Exists(Val(rt.vsphere_server_id))
    ELSE /\ cfg.os_family # NoOsFamily
         /\ LET n == get_vm_name(rt.name, InstanceId, cfg.server, cfg.os_family)
            IN /\ n.err = NoError
               /\ \E id \in 1..Len(vms) : Exists(id) /\ vms[id].name = n.name

Called(c, platform_call) == \E i \in 1..Len(c.calls) : c.calls[i] = platform_call

\* C1: a create or start invocation that begins while a platform VM exists
\* for the instance never calls create_server, whatever happened before
\* (retries after an attempt that failed half-way included).
C1_NeverRecreated ==
  [][(call'.op \in {"create", "start"} /\ VmExistsForInstance)
       => ~Called(call', "create_server")]_vars

\* a retry of create or start found, by its name, the VM that an earlier
\* attempt of the plugin had created before it failed, and did not create one
C1_RetryLocated ==
  /\ call.op \in {"create", "start"}
  /\ call.result = NoError
  /\ call.persisted = None
  /\ call.found # None
  /\ vms[Val(call.found)].origin = "plugin"
  /\ ~Called(call, "create_server")
  /\ rt.vsphere_server_id = call.found

\* C2: stop and delete of an externally managed instance without the force
\* flag make no platform call and change neither the persisted state nor the
\* platform; with the force flag they go on to the look-up and call
\* stop_server / delete_server on the VM the persisted id names, which is
\* then off / gone when the call succeeds.
C2_ForceOverridesGuard ==
  [][(call'.op \in {"stop", "delete"} /\ rt.external)
       => IF ~call'.force
            THEN /\ call'.calls = <<>>
                 /\ call'.result = NoError
                 /\ rt' = rt
                 /\ vms' = vms
            ELSE (rt.vsphere_server_id # None /\ Exists(Val(rt.vsphere_server_id)))
                   => /\ call'.calls =
                           <<IF call'.op = "stop" THEN "stop_server"
                                                  ELSE "delete_server">>
                      /\ call'.result \in {NoError, PlatformError}
                      /\ call'.result = NoError
                           => vms'[Val(rt.vsphere_server_id)].state =
                                (IF call'.op = "stop" THEN "off" ELSE "gone")
                      /\ rt' = rt]_vars

\* stop was invoked without force on an adopted VM that is running, and left
\* it running
C2_GuardedStop ==
  /\ call.op = "stop"
  /\ ~call.force
  /\ rt.external
  /\ call.what = "used_existing"
  /\ rt.vsphere_server_id # None
  /\ vms[Val(rt.vsphere_server_id)].state = "on"

\* the persisted id names an object that the platform no longer holds
PersistedIdGone ==
  rt.vsphere_server_id # None /\ ~Exists(Val(rt.vsphere_server_id))

\* C3 as stated: whenever the persisted id names a removed object, stop fails
\* with NonRecoverableError and delete succeeds without a platform call.
C3_MissingStopFailsDeleteSucceeds ==
  [][(call'.op \in {"stop", "delete"} /\ PersistedIdGone)
       => IF call'.op = "stop"
            THEN call'.result = NonRecoverableError
            ELSE call'.result = NoError /\ call'.calls = <<>>]_vars

\* C3, amended: when the persisted id names a removed object, stop fails with
\* NonRecoverableError unless the instance is externally managed and stop is
\* not forced (then it returns without error); delete succeeds without a
\* platform call and leaves the persisted state as it is, so that the next
\* delete finds the same situation and succeeds too.
C3_MissingStopFailsUnlessGuarded ==
  [][(call'.op \in {"stop", "delete"} /\ PersistedIdGone)
       => /\ call'.calls = <<>>
          /\ rt' = rt
          /\ vms' = vms
          /\ IF call'.op = "stop"
               THEN call'.result =
                      (IF rt.external /\ ~call'.force THEN NoError
                                                      ELSE NonRecoverableError)
               ELSE call'.result = NoError]_vars

\* delete found the persisted id's object gone and returned without error
C3_DeleteOfRemoved ==
  /\ call.op = "delete"
  /\ call.what = "missing"
  /\ call.result = NoError
  /\ PersistedIdGone

\* C7: once a name is persisted, every name get_vm_name gives an operation
\* is that persisted name, whatever server and os_family the operation got.
C7_PersistedNameSticks ==
  (call.persisted # None /\ call.vm_name # None) => call.vm_name = call.persisted

\* an operation got the persisted name although none of the servers and
\* os_families it may have been given resolves to that name
C7_PersistedNameReturned ==
  /\ call.op \in {"stop", "delete"}
  /\ call.persisted # None
  /\ call.vm_name = call.persisted
  /\ \A server \in {cfg.server} \cup OtherServers, os_family \in OsFamilies :
       LET n == resolve_vm_name(InstanceId, server, os_family)
       IN n.err # NoError \/ Some(n.name) # call.persisted

\* C11: with use_external_resource true, create and start never call
\* create_server, whatever the server properties are (with or without a
\* configured name).
C11_ExternalNeverCreated ==
  (call.op \in {"create", "start"} /\ cfg.use_external_resource)
    => ~Called(call, "create_server")

\* C12: create and start raise 'No template/clone_vm provided' only when no
\* platform object exists for the instance; when the VM exists they locate
\* it without requiring a template or clone source.
C12_NoTemplateOnlyWithoutVm ==
  [][(call'.op \in {"create", "start"} /\ VmExistsForInstance)
       => call'.what # "no_template"]_vars

\* C13: when create or start returns successfully after creating or locating
\* a VM, the runtime properties hold that VM's id as vsphere_server_id and
\* its name.
C13_IdPersistedOnSuccess ==
  (call.op \in {"create", "start"} /\ call.result = NoError /\ call.obj # None)
    => /\ rt.vsphere_server_id = call.obj
       /\ rt.name = Some(vms[Val(call.obj)].name)

\* create made a new VM and returned with its id and name persisted
C13_CreatedAndPersisted ==
  /\ call.op = "create"
  /\ call.result = NoError
  /\ Called(call, "create_server")
  /\ call.found = None
  /\ call.obj # None
  /\ rt.vsphere_server_id = call.obj
  /\ rt.name = call.vm_name

\* C14: after delete has deleted the platform VM, vsphere_server_id is no
\* longer in the runtime properties.
C14_IdClearedByDelete ==
  (call.op = "delete" /\ call.result = NoError /\ Called(call, "delete_server"))
    => rt.vsphere_server_id = None

(***************************************************************************)
(* The identity resolver on its own: get_vm_name applied once to every     *)
(* persisted name, server, os_family and instance id of the sets below.    *)
(***************************************************************************)
\* configured names: none, one character repeated, every combination of
\* the characters of NameChars
ConfiguredNames ==
  {None} \cup {Some(Rep("a", n)) : n \in 0..MaxNameLen}
         \cup {Some(s) : s \in SeqsUpTo(NameChars, MaxMixedLen)}

NameServers ==
  {("name" :> n) @@ d :
     n \in ConfiguredNames,
     d \in {<<>>, "add_scale_suffix" :> TRUE, "add_scale_suffix" :> FALSE}}

\* instance ids: a node name, an underscore and a suffix
InstanceIds ==
  {b \o <<"_">> \o x :
     b \in {<<"w">>, <<"w", "_", "b">>},
     x \in {Rep("0", n) : n \in 1..MaxSuffixLen} \cup {<<"a", "1">>}}

NoResult == [err |-> NoError, name |-> <<>>]

NameInit ==
  /\ rt = NoRuntimeProperties
  /\ vms = <<>>
  /\ call = NoCall
  /\ cfg = NoConfiguration
  /\ nw = NoNet
  /\ nm \in [phase : {"input"},
             persisted : {None, Some(ExternalName)},
             server : NameServers,
             os_family : OsFamilies \cup {"Windows"},
             instance_id : InstanceIds,
             out : {NoResult}]

\* the operation calls get_vm_name(server, os_family)
GetVmName ==
  /\ nm.phase = "input"
  /\ nm' = [nm EXCEPT
              !.phase = "done",
              !.out = get_vm_name(nm.persisted, nm.instance_id, nm.server,
                                  nm.os_family)]
  /\ UNCHANGED <<rt, vms, call, cfg, nw>>

NameNext == GetVmName

SpecName == NameInit /\ [][NameNext]_vars

\* get_vm_name returned a name that it resolved, none being persisted
Resolved == nm.phase = "done" /\ nm.persisted = None /\ nm.out.err = NoError

\* the name carries the scale suffix: it is derived from a prefix and the
\* suffix of the instance id
Derived ==
  Get(nm.server, "name", None) = None
    \/ Get(nm.server, "add_scale_suffix", TRUE)

\* ^[A-Za-z0-9-]+$
IsComputerName(s) ==
  /\ Len(s) > 0
  /\ \A i \in 1..Len(s) : s[i] \in AlphaChars \cup DigitChars \cup {"-"}

\* s without its hyphens consists of digits only
AllDigits(s) ==
  /\ \E i \in 1..Len(s) : s[i] \in DigitChars
  /\ \A i \in 1..Len(s) : s[i] \in DigitChars \cup {"-"}

\* C8: for os_family windows and no persisted name, every name get_vm_name
\* returns has at most 15 characters, whatever the configured name and the
\* instance id.
C8_WindowsNameAtMost15 ==
  (Resolved /\ Lower(nm.os_family) = "windows") => Len(nm.out.name) <= 15

\* C9: every name get_vm_name returns when none is persisted matches
\* ^[A-Za-z0-9-]+$, a configured name used without scale suffix included.
C9_ReturnedNameIsComputerName ==
  Resolved => IsComputerName(nm.out.name)

\* C10: a derived name that consists of digits only once its hyphens are
\* stripped is never returned; get_vm_name rejects it.
C10_AllDigitsRejected ==
  (Resolved /\ Derived) => ~AllDigits(nm.out.name)

(***************************************************************************)
(* The network topology resolver on its own: validate_connect_network      *)
(* applied once to every network dict of NetworkDicts, and handle_networks *)
(* applied once to every networking input, related NICs and persisted      *)
(* connected-NICs list of the sets below.                                  *)
(***************************************************************************)
\* the dict that holds the keys of the record f whose value is not None
DictOf(f) == [k \in {j \in DOMAIN f : f[j] # None} |-> Val(f[k])]

NetworkDicts ==
  {DictOf(f) :
     f \in [name : {None, Some(Str("a")), Some(Str("")), Some(PyInt("5")),
                    Some(PyNone)},
            external : {None, Some(PyTrue), Some(PyFalse), Some(Str("yes")),
                        Some(PyNone)},
            use_dhcp : {None, Some(PyFalse)},
            switch_distributed : {None, Some(PyTrue), Some(PyFalse)},
            nsx_t_switch : {None, Some(PyTrue), Some(PyInt("1"))},
            ip : {None, Some(Str("10.0.0.1")), Some(PyInt("0")),
                  Some(PyInt("7")), Some(PyFalse)},
            bogus : {None, Some(Str("x"))},
            mtu : {None, Some(PyInt("9"))}]}

\* declared networks: plain, external, external and management, management,
\* to be taken from a relationship, without a name
DeclaredNets ==
  {NetA, NetB, NetC,
   "name" :> Str("m") @@ "management" :> PyTrue,
   "name" :> Str("a") @@ "from_relationship" :> PyTrue,
   "bogus" :> Str("x")}

\* related NICs: one that names an external network a, one that takes its
\* name from the NIC's runtime properties, one without connected_network
RelatedNics ==
  {RelNic("nic1", Some("name" :> Str("a") @@ "external" :> PyTrue), None),
   RelNic("nic2", Some("management" :> PyTrue), Some(Str("d"))),
   RelNic("nic3", None, None)}

NetworkingInputs ==
  {<<>>} \cup {"connect_networks" :> l : l \in SeqsUpTo(DeclaredNets, MaxNets)}

NetInit ==
  /\ rt = NoRuntimeProperties
  /\ vms = <<>>
  /\ call = NoCall
  /\ cfg = NoConfiguration
  /\ nm = NoName
  /\ nw \in {[NoNet EXCEPT !.phase = "input", !.op = "validate", !.net = n] :
               n \in NetworkDicts}
            \cup
            {[NoNet EXCEPT !.phase = "input", !.op = "handle",
                           !.networking = p, !.rels = r, !.nics = c] :
               p \in NetworkingInputs,
               r \in SeqsUpTo(RelatedNics, MaxRels),
               c \in {None, Some(<<"nic0">>)}}

\* the caller applies validate_connect_network to one network
ValidateConnectNetwork ==
  /\ nw.phase = "input"
  /\ nw.op = "validate"
  /\ nw' = [nw EXCEPT !.phase = "done",
                      !.v = validate_connect_network(nw.net)]
  /\ UNCHANGED <<rt, vms, call, cfg, nm>>

\* the caller applies handle_networks to a networking input
HandleNetworks ==
  /\ nw.phase = "input"
  /\ nw.op = "handle"
  /\ nw' = [nw EXCEPT !.phase = "done",
                      !.h = handle_networks(nw.nics, nw.rels, nw.networking)]
  /\ UNCHANGED <<rt, vms, call, cfg, nm>>

NetNext == ValidateConnectNetwork \/ HandleNetworks

SpecNet == NetInit /\ [][NetNext]_vars

Handled == nw.phase = "done" /\ nw.op = "handle"

Validated == nw.phase = "done" /\ nw.op = "validate"

\* the merged (declared + relationship) list of the input, when the merge
\* does not fail
Merged ==
  get_connected_networks(
    nw.nics, nw.rels, Get(nw.networking, "connect_networks", <<>>))

HowMany(nets, flag) ==
  Cardinality({i \in 1..Len(nets) : Get(nets[i], flag, PyFalse) = PyTrue})

\* the constraints that a list breaks
Broken(nets) ==
  {flag \in {"external", "management"} :
     Cardinality({i \in 1..Len(nets) :
                    Truthy(Get(nets[i], flag, PyFalse))}) > 1}

\* C4: the list handle_networks returns has at most one external and at most
\* one management entry; when the merged list has more than one of either,
\* handle_networks raises NonRecoverableError, names a constraint that the
\* list breaks and returns nothing.
C4_AtMostOneExternalAndManagement ==
  Handled =>
    /\ nw.h.err = NoError
         => HowMany(nw.h.nets, "external") <= 1
              /\ HowMany(nw.h.nets, "management") <= 1
    /\ (Merged.err = NoError /\ Broken(Merged.nets) # {})
         => /\ nw.h.err = NonRecoverableError
            /\ nw.h.what \in Broken(Merged.nets)
            /\ nw.h.nets = <<>>

\* the declared list holds one external network and a related NIC brings a
\* second one: handle_networks raised, naming the external constraint
C4_SecondExternalFromRelationship ==
  /\ Handled
  /\ HowMany(Get(nw.networking, "connect_networks", <<>>), "external") = 1
  /\ Merged.err = NoError
  /\ Broken(Merged.nets) = {"external"}
  /\ nw.h.err = NonRecoverableError
  /\ nw.h.what = "external"

\* the networks of the merged list as validation leaves them
Resolved_networks ==
  [i \in 1..Len(Merged.nets) |-> validate_connect_network(Merged.nets[i]).net]

IsExternal(n) == n["external"] = PyTrue

\* C5: the list handle_networks returns is the resolved list with the
\* external network, if any, moved to the front and every other network in
\* its original relative order.
C5_ExternalFirstRestInOrder ==
  (Handled /\ nw.h.err = NoError /\ Merged.nets # <<>>)
    => nw.h.nets = SelectSeq(Resolved_networks, IsExternal)
                     \o SelectSeq(Resolved_networks, LAMBDA n : ~IsExternal(n))

\* an external network declared after two others was returned first, and
\* the two others follow in their order
C5_ExternalMovedToFront ==
  /\ Handled
  /\ nw.h.err = NoError
  /\ Len(nw.h.nets) = 3
  /\ IsExternal(Resolved_networks[3])
  /\ nw.h.nets[1] = Resolved_networks[3]
  /\ nw.h.nets[2] = Resolved_networks[1]
  /\ nw.h.nets[3] = Resolved_networks[2]
  /\ nw.h.nets[2] # nw.h.nets[3]

\* the violations of a network: both switch kinds, no name, every unknown
\* key, every value of a wrong type (a falsy value of a key that is not
\* boolean stands for an absent one)
Violations(n) ==
  (IF /\ Truthy(Get(n, "switch_distributed", PyNone))
      /\ Truthy(Get(n, "nsx_t_switch", PyNone))
     THEN {Msg("both_switches", "")} ELSE {})
  \cup (IF ~Truthy(Get(n, "name", PyNone)) THEN {Msg("no_name", "")} ELSE {})
  \cup {Msg("unsupported_key", k) : k \in DOMAIN n \ SchemaKeys}
  \cup {Msg("unsupported_type", k) :
          k \in {j \in DOMAIN n \cap SchemaKeys :
                   /\ n[j].t # ExpectedType(j)
                   /\ (Truthy(n[j]) \/ ExpectedType(j) = "bool")}}

Listed(msgs) == {msgs[i] : i \in 1..Len(msgs)}

\* C6: validate_connect_network raises for a network that has a violation,
\* and the one error it raises lists every violation of the network (and,
\* besides them, only the name key of a network whose name is empty); it
\* returns, with the network, only for a network without violation.
C6_EveryViolationListed ==
  Validated =>
    /\ nw.v.err <=> Violations(nw.net) # {}
    /\ Violations(nw.net) \subseteq Listed(nw.v.msgs)
    /\ Listed(nw.v.msgs) \subseteq
         Violations(nw.net) \cup {Msg("unsupported_key", "name")}
    /\ ~nw.v.err => DOMAIN nw.v.net = SchemaKeys

\* a network with four kinds of violation at once was rejected with all of
\* them listed
C6_FourViolationsListed ==
  /\ Validated
  /\ nw.v.err
  /\ {Msg("both_switches", ""), Msg("no_name", ""),
      Msg("unsupported_key", "bogus"), Msg("unsupported_key", "mtu"),
      Msg("unsupported_type", "external"), Msg("unsupported_type", "ip")}
       \subseteq Listed(nw.v.msgs)

(***************************************************************************)
(* The operations on an existing server: resize_server, resize, poststart  *)
(* and the three snapshot operations. Here the runtime properties also     *)
(* hold cpus, memory and expected_configuration (the summary part:         *)
(* [numCpu, memorySizeMB]), and a VM of the platform also has its cpus,    *)
(* its memory and the set of its snapshot names. An operation is recorded  *)
(* with its arguments.                                                     *)
(***************************************************************************)
\* a cpus / memory value that is given: neither None nor 0
Given(o) == o # None /\ Val(o) # 0

\* server_client.resize_server(server_obj, cpus=..., memory=...)
server_client_resize_server(id, cpus, memory) ==
  [vms EXCEPT ![id].cpus = IF Given(cpus) THEN Val(cpus) ELSE @,
              ![id].memory = IF Given(memory) THEN Val(memory) ELSE @]

\* server_client.backup_server / restore_server / remove_backup
server_client_snapshot(platform_call, id, snapshot_name) ==
  [vms EXCEPT ![id].snapshots =
     CASE platform_call = "backup_server" -> @ \cup {snapshot_name}
       [] platform_call = "remove_backup" -> @ \ {snapshot_name}
       [] OTHER -> @]

\* the record of an operation with its arguments
Request(op, result, what, calls, args) ==
  [op |-> op, result |-> result, what |-> what, calls |-> calls, args |-> args]

\* an operation that ends without a change of the runtime properties and of
\* the platform
returns(op, result, what, args) ==
  /\ call' = Request(op, result, what, <<>>, args)
  /\ UNCHANGED <<rt, vms, cfg, nm, nw>>

\* the loop that stores the sizes and leaves the expected configuration
store_sizes_not_mirrored(r, cpus, memory) ==
  [err |-> IF r.expected_configuration = None THEN KeyError ELSE NoError,
   rt |-> [r EXCEPT !.cpus = IF Given(cpus) THEN cpus ELSE @,
                    !.memory = IF Given(memory) THEN memory ELSE @]]

\* the loop of resize_server over 'cpus' and 'memory' at the runtime
\* properties r: [err, rt]
store_sizes(r, cpus, memory) ==
  Bind(IF Given(cpus) THEN [r EXCEPT !.cpus = cpus] ELSE r, LAMBDA r1 :
    IF Given(cpus) /\ r.expected_configuration = None
      THEN [err |-> KeyError, rt |-> r1]
    ELSE
      Bind(IF Given(cpus)
             THEN [r1 EXCEPT !.expected_configuration =
                     Some([Val(@) EXCEPT !.numCpu = Val(cpus)])]
             ELSE r1, LAMBDA r2 :
        Bind(IF Given(memory) THEN [r2 EXCEPT !.memory = memory] ELSE r2,
             LAMBDA r3 :
          IF Given(memory) /\ r.expected_configuration = None
            THEN [err |-> KeyError, rt |-> r3]
          ELSE IF Given(memory)
            THEN [err |-> NoError,
                  rt |-> [r3 EXCEPT !.expected_configuration =
                            Some([Val(@) EXCEPT !.memorySizeMB = Val(memory)])]]
            ELSE [err |-> NoError, rt |-> r3])))

\* the operation resize_server
resize_server(server, os_family, cpus, memory, fail) ==
  \E args \in {[cpus |-> cpus, memory |-> memory]} :
    IF ~(Given(cpus) \/ Given(memory))
      THEN returns("resize_server", NoError, "no_sizes", args)
    ELSE
      \E f \in {get_server_by_context(server, os_family)} :
        IF f.err # NoError
          THEN returns("resize_server", f.err, f.what, args)
        ELSE
          \E pick \in f.objs :
            IF pick = None
              THEN returns("resize_server", NonRecoverableError, "missing",
                           args)
            ELSE IF fail
              THEN /\ call' = Request("resize_server", PlatformError,
                                      "resize_server", <<"resize_server">>,
                                      args)
                   /\ UNCHANGED <<rt, vms, cfg, nm, nw>>
            ELSE
              \E st \in {store_sizes(rt, cpus, memory)} :
                /\ call' = Request("resize_server", st.err,
                                   IF st.err = NoError THEN ""
                                   ELSE "expected_configuration",
                                   <<"resize_server">>, args)
                /\ vms' = server_client_resize_server(Val(pick), cpus, memory)
                /\ rt' = st.rt
                /\ UNCHANGED <<cfg, nm, nw>>

\* the operation resize: the sizes are those of the runtime properties
resize(server, os_family, fail) ==
  \E args \in {[cpus |-> rt.cpus, memory |-> rt.memory]} :
  \E f \in {get_server_by_context(server, os_family)} :
    IF f.err # NoError
      THEN returns("resize", f.err, f.what, args)
    ELSE
      \E pick \in f.objs :
        IF pick = None
          THEN returns("resize", NonRecoverableError, "missing", args)
        ELSE
          \E n \in {get_vm_name(rt.name, InstanceId, server, os_family)} :
            IF n.err # NoError
              THEN returns("resize", n.err, "name", args)
            ELSE IF ~(Given(rt.cpus) \/ Given(rt.memory))
              THEN returns("resize", NonRecoverableError, "no_parameters",
                           args)
            ELSE IF fail
              THEN /\ call' = Request("resize", PlatformError, "resize_server",
                                      <<"resize_server">>, args)
                   /\ UNCHANGED <<rt, vms, cfg, nm, nw>>
            ELSE
              /\ call' = Request("resize", NoError, "", <<"resize_server">>,
                                 args)
              /\ vms' = server_client_resize_server(Val(pick), rt.cpus,
                                                    rt.memory)
              /\ UNCHANGED <<rt, cfg, nm, nw>>

\* the operation poststart
poststart(server, os_family) ==
  \E f \in {get_server_by_context(server, os_family)} :
    IF f.err # NoError
      THEN returns("poststart", f.err, f.what, <<>>)
    ELSE
      \E pick \in f.objs :
        IF pick = None
          THEN returns("poststart", AttributeError, "missing", <<>>)
          ELSE /\ call' = Request("poststart", NoError, "", <<>>, <<>>)
               /\ rt' = [rt EXCEPT !.expected_configuration =
                           Some([numCpu |-> vms[Val(pick)].cpus,
                                 memorySizeMB |-> vms[Val(pick)].memory])]
               /\ UNCHANGED <<vms, cfg, nm, nw>>

\* the body shared by snapshot_create, snapshot_apply and snapshot_delete;
\* platform_call is the call of the server client that the operation makes
snapshot(op, platform_call, server, os_family, snapshot_name, snapshot_incremental, fail) ==
  \E args \in {[snapshot_name |-> snapshot_name,
                snapshot_incremental |-> snapshot_incremental]} :
    IF rt.external
      THEN returns(op, NoError, "used_existing", args)
    ELSE IF snapshot_name = ""
      THEN returns(op, NonRecoverableError, "no_snapshot_name", args)
    ELSE IF ~snapshot_incremental
      THEN returns(op, NoError, "unsupported", args)
    ELSE
      \E f \in {get_server_by_context(server, os_family)} :
        IF f.err # NoError
          THEN returns(op, f.err, f.what, args)
        ELSE
          \E pick \in f.objs :
            IF pick = None
              THEN returns(op, NonRecoverableError, "missing", args)
            ELSE
              \E n \in {get_vm_name(rt.name, InstanceId, server, os_family)} :
                IF n.err # NoError
                  THEN returns(op, n.err, "name", args)
                ELSE IF fail
                  THEN /\ call' = Request(op, PlatformError, platform_call,
                                          <<platform_call>>, args)
                       /\ UNCHANGED <<rt, vms, cfg, nm, nw>>
                ELSE /\ call' = Request(op, NoError, "", <<platform_call>>,
                                        args)
                     /\ vms' = server_client_snapshot(platform_call, Val(pick),
                                                      snapshot_name)
                     /\ UNCHANGED <<rt, cfg, nm, nw>>

\* the operation snapshot_create
snapshot_create(server, os_family, snapshot_name, snapshot_incremental, fail) ==
  snapshot("snapshot_create", "backup_server", server, os_family,
           snapshot_name, snapshot_incremental, fail)

\* the operation snapshot_apply
snapshot_apply(server, os_family, snapshot_name, snapshot_incremental, fail) ==
  snapshot("snapshot_apply", "restore_server", server, os_family,
           snapshot_name, snapshot_incremental, fail)

\* the operation snapshot_delete
snapshot_delete(server, os_family, snapshot_name, snapshot_incremental, fail) ==
  snapshot("snapshot_delete", "remove_backup", server, os_family,
           snapshot_name, snapshot_incremental, fail)

\* the body shared by shutdown_guest, freeze_suspend and freeze_resume from
\* the look-up on; platform_call is the call of the server client that the
\* operation makes and state the power state it leaves the VM in
power_state(op, platform_call, state, server, os_family, fail) ==
  \E f \in {get_server_by_context(server, os_family)} :
    IF f.err # NoError
      THEN returns(op, f.err, f.what, <<>>)
    ELSE
      \E pick \in f.objs :
        IF pick = None
          THEN returns(op, NonRecoverableError, "missing", <<>>)
        ELSE
          \E n \in {get_vm_name(rt.name, InstanceId, server, os_family)} :
            IF n.err # NoError
              THEN returns(op, n.err, "name", <<>>)
            ELSE IF fail
              THEN /\ call' = Request(op, PlatformError, platform_call,
                                      <<platform_call>>, <<>>)
                   /\ UNCHANGED <<rt, vms, cfg, nm, nw>>
            ELSE /\ call' = Request(op, NoError, "", <<platform_call>>, <<>>)
                 /\ vms' = set_state(Val(pick), state)
                 /\ UNCHANGED <<rt, cfg, nm, nw>>

\* the operation shutdown_guest
shutdown_guest(server, os_family, fail) ==
  power_state("shutdown_guest", "shutdown_server_guest", "off", server,
              os_family, fail)

\* the operation freeze_suspend
freeze_suspend(server, os_family, fail) ==
  IF rt.external
    THEN returns("freeze_suspend", NoError, "used_existing", <<>>)
    ELSE power_state("freeze_suspend", "suspend_server", "suspended", server,
                     os_family, fail)

\* the operation freeze_resume
freeze_resume(server, os_family, fail) ==
  IF rt.external
    THEN returns("freeze_resume", NoError, "used_existing", <<>>)
    ELSE power_state("freeze_resume", "start_server", "on", server,
                     os_family, fail)

\* someone else than the plugin resizes a VM on the platform
vm_resized(id, cpus, memory) ==
  /\ Exists(id)
  /\ vms[id].cpus # cpus \/ vms[id].memory # memory
  /\ vms' = [vms EXCEPT ![id].cpus = cpus, ![id].memory = memory]
  /\ call' = Request("none", NoError, "", <<>>, <<>>)
  /\ UNCHANGED <<rt, cfg, nm, nw>>

\* the sizes and the snapshot names of the inputs
CpuSizes == {2, 4}

MemorySizes == {1024, 2048}

SnapshotNames == {"", "s"}

\* the node whose instance the operations are invoked on
OpsConfiguration ==
  Configuration("template" :> "tpl", PlainTopology, "linux", FALSE)

\* the instance after create, start and poststart: its VM w-01 exists, is
\* adopted or not, and its sizes are those of the expected configuration
OpsInit ==
  /\ cfg = OpsConfiguration
  /\ nm = NoName
  /\ nw = NoNet
  /\ call = Request("none", NoError, "", <<>>, <<>>)
  /\ \E cpus \in CpuSizes, memory \in MemorySizes, external \in BOOLEAN :
       /\ vms = <<[name |-> <<"w", "-", "0", "1">>, state |-> "on",
                   origin |-> IF external THEN "platform" ELSE "plugin",
                   cpus |-> cpus, memory |-> memory, snapshots |-> {}]>>
       /\ \E expected_configuration \in
               {None, Some([numCpu |-> cpus, memorySizeMB |-> memory])} :
            rt = [NoRuntimeProperties EXCEPT
                    !.vsphere_server_id = Some(1),
                    !.name = Some(<<"w", "-", "0", "1">>),
                    !.external = external,
                    !.connected_nics = Some(<<>>)]
                 @@ [cpus |-> None, memory |-> None,
                     expected_configuration |-> expected_configuration]

ResizeServer ==
  \E cpus \in {None, Some(0)} \cup {Some(c) : c \in CpuSizes},
     memory \in {None} \cup {Some(m) : m \in MemorySizes},
     fail \in BOOLEAN :
    resize_server(cfg.server, cfg.os_family, cpus, memory, fail)

Resize == \E fail \in BOOLEAN : resize(cfg.server, cfg.os_family, fail)

Poststart == poststart(cfg.server, cfg.os_family)

SnapshotCreate ==
  \E snapshot_name \in SnapshotNames, snapshot_incremental \in BOOLEAN,
     fail \in BOOLEAN :
    snapshot_create(cfg.server, cfg.os_family, snapshot_name,
                    snapshot_incremental, fail)

SnapshotApply ==
  \E snapshot_name \in SnapshotNames, snapshot_incremental \in BOOLEAN,
     fail \in BOOLEAN :
    snapshot_apply(cfg.server, cfg.os_family, snapshot_name,
                   snapshot_incremental, fail)

SnapshotDelete ==
  \E snapshot_name \in SnapshotNames, snapshot_incremental \in BOOLEAN,
     fail \in BOOLEAN :
    snapshot_delete(cfg.server, cfg.os_family, snapshot_name,
                    snapshot_incremental, fail)

ShutdownGuest ==
  \E fail \in BOOLEAN : shutdown_guest(cfg.server, cfg.os_family, fail)

FreezeSuspend ==
  \E fail \in BOOLEAN : freeze_suspend(cfg.server, cfg.os_family, fail)

FreezeResume ==
  \E fail \in BOOLEAN : freeze_resume(cfg.server, cfg.os_family, fail)

VmResized ==
  \E id \in 1..Len(vms), cpus \in CpuSizes, memory \in MemorySizes :
    vm_resized(id, cpus, memory)

OpsVmRemoved ==
  \E id \in 1..Len(vms) :
    /\ Exists(id)
    /\ vms' = set_state(id, "gone")
    /\ call' = Request("none", NoError, "", <<>>, <<>>)
    /\ UNCHANGED <<rt, cfg, nm, nw>>

OpsNext ==
  \/ ResizeServer \/ Resize \/ Poststart
  \/ SnapshotCreate \/ SnapshotApply \/ SnapshotDelete
  \/ ShutdownGuest \/ FreezeSuspend \/ FreezeResume
  \/ VmResized \/ OpsVmRemoved

SpecOps == OpsInit /\ [][OpsNext]_vars

\* the operation recorded by the step is one of ops
Invoked(ops) == call'.op \in ops

Resizes == {"resize_server", "resize"}

Snapshots == {"snapshot_create", "snapshot_apply", "snapshot_delete"}

\* C15: a resize of an existing VM with neither cpus nor memory given fails
\* with NonRecoverableError and makes no resize call on the platform.
C15_NothingToResizeFails ==
  [][(/\ Invoked(Resizes)
      /\ call'.args.cpus = None
      /\ call'.args.memory = None
      /\ VmExistsForInstance)
       => /\ call'.result = NonRecoverableError
          /\ ~Called(call', "resize_server")]_vars

\* the value of a field of the expected configuration's summary at the
\* runtime properties r
Expected(r, field) == Val(r.expected_configuration)[field]

C17_NotIncrementalIsNoOp ==
  [][(Invoked(Snapshots) /\ ~call'.args.snapshot_incremental)
       => /\ call'.result = NoError
          /\ call'.calls = <<>>
          /\ rt' = rt
          /\ vms' = vms]_vars

(***************************************************************************)
(* The readiness poll: get_state on the server of the instance, while the  *)
(* guest starts and reports its network interfaces.                        *)
(***************************************************************************)

\* the number of interfaces a guest reports
MaxGuestNics == 2

OperationRetry == "OperationRetry"

\* `not x` for an IP that is None or a string
Absent(ip) == ip = None \/ Val(ip) = ""

\* get_ip_from_vsphere_nic_ips(network): the address of the reported
\* interface, None if it has none
get_ip_from_vsphere_nic_ips(network) == network.ip

\* server_client.is_server_guest_running(server_obj)
is_server_guest_running(id) == vms[id].guest.running

\* server_client.get_server_ip(server_obj, network_name): the address of the
\* first reported interface of that network that has one, else None
RECURSIVE get_server_ip_from(_, _, _)
get_server_ip_from(net, i, network_name) ==
  IF i > Len(net)
    THEN None
    ELSE IF net[i].network = network_name /\ ~Absent(net[i].ip)
      THEN net[i].ip
      ELSE get_server_ip_from(net, i + 1, network_name)

get_server_ip(id, network_name) ==
  get_server_ip_from(vms[id].guest.net, 1, network_name)

\* arrived_at_min_wait_time(minimum_wait_time), when get_state calls it, at
\* the runtime properties r: [rt, slept]
arrived_at_min_wait_time(r, minimum_wait_time) ==
  IF minimum_wait_time = None \/ Val(minimum_wait_time) <= 0
    THEN [rt |-> r, slept |-> "no"]
    ELSE IF ~r.min_wait_time_start
      THEN [rt |-> [r EXCEPT !.min_wait_time_start = TRUE], slept |-> "all"]
      ELSE [rt |-> r, slept |-> "remainder"]

\* runtime_properties.pop('__min_wait_time_start', None)
pop_min_wait_time_start(r) == [r EXCEPT !.min_wait_time_start = FALSE]

\* the names of the declared networks whose flag is truthy, in their order
flagged_networks(networking, flag) ==
  Bind(SelectSeq(Get(networking, "connect_networks", <<>>),
                 LAMBDA network : Truthy(Get(network, flag, PyFalse))),
       LAMBDA flagged : [k \in 1..Len(flagged) |-> flagged[k]["name"].v])

\* net[IP] = ip for every net of nets with that name
set_net_ip(nets, network_name, ip) ==
  [k \in 1..Len(nets) |->
     IF nets[k].name = network_name THEN [nets[k] EXCEPT !.ip = ip]
                                    ELSE nets[k]]

\* the loop of get_state over server_obj.guest.net from interface i on;
\* st = [err, what, default_ip, manager_network_ip, nets]
RECURSIVE guest_net_loop(_, _, _, _)
guest_net_loop(net, i, management_network_name, st) ==
  IF i > Len(net)
    THEN st
    ELSE
      Bind(IF Absent(st.default_ip)
             THEN [st EXCEPT !.default_ip = get_ip_from_vsphere_nic_ips(net[i])]
             ELSE st,
           LAMBDA s1 :
             IF \/ Absent(s1.manager_network_ip)
                \/ /\ ~Absent(management_network_name)
                   /\ net[i].network = Val(management_network_name)
               THEN
                 IF get_ip_from_vsphere_nic_ips(net[i]) = None
                   THEN [s1 EXCEPT !.err = OperationRetry,
                                   !.what = "management_ip",
                                   !.manager_network_ip = None]
                   ELSE guest_net_loop(net, i + 1, management_network_name,
                          [s1 EXCEPT
                             !.manager_network_ip =
                                get_ip_from_vsphere_nic_ips(net[i]),
                             !.nets = set_net_ip(@, net[i].network,
                                        get_ip_from_vsphere_nic_ips(net[i]))])
               ELSE guest_net_loop(net, i + 1, management_network_name,
                      [s1 EXCEPT
                         !.nets = set_net_ip(@, net[i].network,
                                    get_ip_from_vsphere_nic_ips(net[i]))]))

\* the outcome of get_state at the runtime properties r
Polled(err, what, r) == [err |-> err, what |-> what, rt |-> r]

\* the end of get_state for a running guest, lines 914-966, at the runtime
\* properties r whose ip is set; public_ip is the address of the summary
public_ips_of(id, r, networking, public_ip) ==
  IF Len(vms[id].guest.net) > 0
    THEN
      Bind(flagged_networks(networking, "external"), LAMBDA external :
      Bind([k \in 1..Len(external) |-> get_server_ip(id, external[k])],
           LAMBDA public_ips :
             IF \E k \in 1..Len(public_ips) : public_ips[k] = None
               THEN Polled(OperationRetry, "public_ip", r)
               ELSE Polled(NoError, "started",
                      pop_min_wait_time_start(
                        [r EXCEPT !.public_ip =
                           Some(IF Len(public_ips) > 0 THEN public_ips[1]
                                                        ELSE None)]))))
    ELSE Polled(NoError, "started",
           pop_min_wait_time_start(
             [r EXCEPT !.public_ip =
                Some(IF ~Absent(public_ip) THEN public_ip ELSE None)]))

\* get_state for a guest that is taken as running, lines 855-966; summary_ip
\* is the address that the summary gave for os_family 'other', else None
running_guest(id, r, networking, wait_ip, summary_ip) ==
  Bind(flagged_networks(networking, "management"), LAMBDA management_networks :
  Bind(IF Len(management_networks) = 1 THEN Some(management_networks[1])
                                       ELSE None,
       LAMBDA management_network_name :
  Bind(guest_net_loop(vms[id].guest.net, 1, management_network_name,
         [err |-> NoError, what |-> "", default_ip |-> summary_ip,
          manager_network_ip |-> summary_ip, nets |-> r.networks]),
       LAMBDA l :
         IF l.err # NoError
           THEN Polled(l.err, l.what, [r EXCEPT !.networks = l.nets])
         ELSE IF ~Absent(management_network_name)
                 /\ Absent(l.manager_network_ip)
           THEN Polled(OperationRetry, "management_ip",
                       [r EXCEPT !.networks = l.nets])
         ELSE
           Bind([r EXCEPT !.networks = l.nets,
                          !.ip = Some(IF ~Absent(l.manager_network_ip)
                                        THEN l.manager_network_ip
                                        ELSE l.default_ip)],
                LAMBDA r1 :
                  IF Absent(Val(r1.ip)) /\ wait_ip
                    THEN Polled(OperationRetry, "ip", r1)
                    ELSE public_ips_of(id, r1, networking, summary_ip)))))

\* a guest that is not running and is reported as started whether or not the
\* node starts its VM
not_started_is_success(r) == Polled(NoError, "not_started", r)

\* get_state for a guest that is not running, lines 967-975
not_started(r) ==
  IF ~cfg.enable_start_vm
    THEN Polled(NoError, "not_started", r)
    ELSE Polled(OperationRetry, "not_started", r)

\* get_state from the guest checks on, lines 841-975, for the server id
poll_guest(id, r, networking, os_family, wait_ip) ==
  IF os_family = "other" /\ vms[id].guest.summary = None
    THEN Polled(NoError, "no_guest_summary", pop_min_wait_time_start(r))
    ELSE
      Bind(IF os_family = "other" THEN Val(vms[id].guest.summary) ELSE None,
           LAMBDA summary_ip :
             IF ~Absent(summary_ip) \/ is_server_guest_running(id)
               THEN running_guest(id, r, networking, wait_ip, summary_ip)
               ELSE not_started(r))

\* the runtime properties that are stored after the outcome p of get_state
\* on the runtime properties r: the addresses that the loop has set in
\* place at the nets, before runtime_properties[NETWORKS] is assigned, are
\* stored or not
in_place(p, r) ==
  IF p.what = "management_ip"
    THEN {p.rt, [p.rt EXCEPT !.networks = r.networks]}
    ELSE {p.rt}

\* get_state ends with err and the runtime properties r
polled(err, what, r, args) ==
  /\ call' = Request("get_state", err, what, <<>>, args)
  /\ rt' = r
  /\ UNCHANGED <<vms, cfg, nm, nw>>

get_state(server, networking, os_family, wait_ip, minimum_wait_time) ==
  \E w \in {arrived_at_min_wait_time(rt, minimum_wait_time)} :
  \E args \in {[wait_ip |-> wait_ip, minimum_wait_time |-> minimum_wait_time,
                slept |-> w.slept]} :
  \E f \in {get_server_by_context(server, os_family)} :
    IF f.err # NoError
      THEN polled(f.err, f.what, w.rt, args)
    ELSE
      \E pick \in f.objs :
        IF pick = None
          THEN polled(NonRecoverableError, "missing", w.rt, args)
        ELSE
          \E n \in {get_vm_name(rt.name, InstanceId, server, os_family)} :
            IF n.err # NoError
              THEN polled(n.err, "name", w.rt, args)
              ELSE
                \E p \in {poll_guest(Val(pick), w.rt, networking, os_family,
                                     wait_ip)} :
                \E r \in in_place(p, w.rt) :
                  polled(p.err, p.what, r, args)

\* the guest of the VM id changes to guest
guest_reports(id, guest) ==
  /\ Exists(id)
  /\ vms' = [vms EXCEPT ![id].guest = guest]
  /\ call' = Request("none", NoError, "", <<>>, <<>>)
  /\ UNCHANGED <<rt, cfg, nm, nw>>

\* the networks of the platform and the address that the guest gets for its
\* i-th interface
GuestNetworks == {"a", "b"}

GuestIp(i) == IF i = 1 THEN "10.0.0.1" ELSE "10.0.0." \o ToString(i)

SummaryIp == "10.0.0.9"

Declared(network_name) == "name" :> Str(network_name)

Management(network_name) == Declared(network_name) @@ "management" :> PyTrue

External(network_name) == Declared(network_name) @@ "external" :> PyTrue

\* the declared networks: none, plain, one management network, an external
\* network with and without a management network, two management networks
DeclaredTopologies ==
  {<<>>,
   "connect_networks" :> <<Declared("a")>>,
   "connect_networks" :> <<Management("a")>>,
   "connect_networks" :> <<Declared("a"), External("b")>>,
   "connect_networks" :> <<External("b"), Management("a")>>,
   "connect_networks" :> <<Management("a"), Management("b")>>}

\* the inputs of get_state and the node property enable_start_vm
StateConfigurations ==
  {Configuration("template" :> "tpl", [networking |-> t, rels |-> <<>>],
                 o, FALSE)
     @@ [wait_ip |-> w, minimum_wait_time |-> m, enable_start_vm |-> e] :
     t \in DeclaredTopologies, o \in {"linux", "other"}, w \in BOOLEAN,
     m \in {None, Some(10)}, e \in BOOLEAN}

\* the instance after create: its VM w-01 exists; the guest does not run
\* and has reported nothing
StateInit ==
  /\ cfg \in StateConfigurations
  /\ nm = NoName
  /\ nw = NoNet
  /\ call = Request("none", NoError, "", <<>>, <<>>)
  /\ \E summary \in {None, Some(None)} :
       vms = <<[name |-> <<"w", "-", "0", "1">>, state |-> "off",
                origin |-> "plugin",
                guest |-> [running |-> FALSE, summary |-> summary,
                           net |-> <<>>]]>>
  /\ rt = [NoRuntimeProperties EXCEPT
             !.vsphere_server_id = Some(1),
             !.name = Some(<<"w", "-", "0", "1">>),
             !.connected_nics = Some(<<>>)]
          @@ [networks |->
                Bind(Get(cfg.networking, "connect_networks", <<>>),
                     LAMBDA declared :
                       [k \in 1..Len(declared) |->
                          [name |-> declared[k]["name"].v, ip |-> None]]),
              ip |-> None, public_ip |-> None,
              min_wait_time_start |-> FALSE]

GetState ==
  get_state(cfg.server, cfg.networking, cfg.os_family, cfg.wait_ip,
            cfg.minimum_wait_time)

GuestStarts ==
  \E id \in 1..Len(vms) :
    /\ ~vms[id].guest.running
    /\ guest_reports(id, [vms[id].guest EXCEPT !.running = TRUE])

InterfaceReported ==
  \E id \in 1..Len(vms), network \in GuestNetworks :
    /\ Len(vms[id].guest.net) < MaxGuestNics
    /\ guest_reports(id, [vms[id].guest EXCEPT
                            !.net = Append(@, [network |-> network,
                                               ip |-> None])])

IpAssigned ==
  \E id \in 1..Len(vms) :
    \E i \in 1..Len(vms[id].guest.net) :
      /\ vms[id].guest.net[i].ip = None
      /\ guest_reports(id, [vms[id].guest EXCEPT
                              !.net[i].ip = Some(GuestIp(i))])

SummaryReported ==
  \E id \in 1..Len(vms) :
    /\ vms[id].guest.summary = Some(None)
    /\ guest_reports(id, [vms[id].guest EXCEPT
                            !.summary = Some(Some(SummaryIp))])

StateVmRemoved ==
  \E id \in 1..Len(vms) :
    /\ Exists(id)
    /\ vms' = set_state(id, "gone")
    /\ call' = Request("none", NoError, "", <<>>, <<>>)
    /\ UNCHANGED <<rt, cfg, nm, nw>>

StateNext ==
  \/ GetState
  \/ GuestStarts \/ InterfaceReported \/ IpAssigned \/ SummaryReported
  \/ StateVmRemoved

SpecState == StateInit /\ [][StateNext]_vars

\* the guest of the server of the instance
Guest == vms[Val(rt.vsphere_server_id)].guest

\* the step is a get_state on the existing server of the instance
Polls == call'.op = "get_state" /\ VmExistsForInstance

\* the name of the management network when exactly one is declared
ManagementNetwork ==
  Bind(flagged_networks(cfg.networking, "management"),
       LAMBDA management_networks :
         IF Len(management_networks) = 1 THEN Some(management_networks[1])
                                         ELSE None)

\* the guest checks are made: os_family is not 'other'
GuestChecked == cfg.os_family # "other"

\* C18: get_state on a running guest that reports no network interface
\* raises OperationRetry, whatever networks are declared and whatever
\* wait_ip is (checked for the os_families whose guest is inspected).
C18_NoInterfaceRetries ==
  [][(Polls /\ GuestChecked /\ Guest.running /\ Guest.net = <<>>)
       => call'.result = OperationRetry]_vars

\* C19: when get_state succeeds on a running guest, the persisted ip is the
\* address of a reported interface of the management network if exactly one
\* management network is declared, and the address of the first reported
\* interface otherwise (checked for the os_families whose guest is
\* inspected, and for a guest that reports an interface).
C19_IpOfManagementElseFirst ==
  [][(/\ Polls /\ GuestChecked /\ Guest.running /\ Guest.net # <<>>
      /\ call'.result = NoError)
       => IF ManagementNetwork # None
            THEN \E i \in 1..Len(Guest.net) :
                   /\ Guest.net[i].network = Val(ManagementNetwork)
                   /\ Guest.net[i].ip # None
                   /\ rt'.ip = Some(Guest.net[i].ip)
            ELSE /\ Guest.net[1].ip # None
                 /\ rt'.ip = Some(Guest.net[1].ip)]_vars

\* the result of get_state on a guest that is not running, by enable_start_vm
NotStartedResult ==
  IF ~cfg.enable_start_vm
    THEN call'.result = NoError
    ELSE call'.result = OperationRetry /\ call'.what = "not_started"

\* C20 as stated: get_state on a guest that is not running succeeds if
\* enable_start_vm is false and raises OperationRetry 'Server not yet
\* started.' if it is true.
C20_NotRunningByEnableStartVm ==
  [][(Polls /\ ~Guest.running) => NotStartedResult]_vars

\* the guest checks are skipped: os_family is 'other' and the summary of the
\* VM has no guest part or gives an address
GuestChecksSkipped ==
  /\ cfg.os_family = "other"
  /\ Guest.summary = None \/ ~Absent(Val(Guest.summary))

\* C20: get_state on a guest that is not running, unless os_family is
\* 'other' and the summary of the VM has no guest part or gives an address,
\* succeeds if enable_start_vm is false and raises OperationRetry 'Server
\* not yet started.' if it is true; it writes nothing but the start of the
\* minimum wait.
C20_NotRunningUnlessChecksSkipped ==
  [][(Polls /\ ~Guest.running /\ ~GuestChecksSkipped)
       => /\ NotStartedResult
          /\ rt' = arrived_at_min_wait_time(rt, cfg.minimum_wait_time).rt]_vars

\* get_state succeeded on a guest that is not running, for a node that does
\* not start its VM
C20_NotStartedSuccess ==
  /\ call.op = "get_state"
  /\ call.result = NoError
  /\ call.what = "not_started"
  /\ ~cfg.enable_start_vm
  /\ VmExistsForInstance
  /\ ~Guest.running
  /\ rt.ip = None

\* the names of the declared networks flagged external
ExternalNetworks == flagged_networks(cfg.networking, "external")

\* the address that the platform gives for the declared network
PublicIpOf(network_name) ==
  get_server_ip(Val(rt.vsphere_server_id), network_name)

\* C21: get_state succeeds on a running guest only if every declared
\* external network has an address, and then public_ip is the address of the
\* external network; without a declared external network it succeeds with
\* public_ip present and None (checked for the os_families whose guest is
\* inspected).
C21_PublicIpOfExternal ==
  [][(Polls /\ GuestChecked /\ Guest.running /\ call'.result = NoError)
       => IF Len(ExternalNetworks) = 0
            THEN rt'.public_ip = Some(None)
            ELSE /\ \A k \in 1..Len(ExternalNetworks) :
                      PublicIpOf(ExternalNetworks[k]) # None
                 /\ rt'.public_ip = Some(PublicIpOf(ExternalNetworks[1]))]_vars

\* runtime_properties.get(key) for a key that is absent or holds a value
Stored(o) == IF o = None THEN None ELSE Val(o)

\* C22: when get_state raises OperationRetry, the persisted ip, public_ip
\* and networks (the address of each network included) are what they were
\* before the invocation (checked for the os_families whose guest is
\* inspected).
C22_RetryWritesNothing ==
  [][(Polls /\ GuestChecked /\ call'.result = OperationRetry)
       => /\ Stored(rt'.ip) = Stored(rt.ip)
          /\ Stored(rt'.public_ip) = Stored(rt.public_ip)
          /\ rt'.networks = rt.networks]_vars

(***************************************************************************)
(* Drift detection and reconciliation: check_drift and update on the       *)
(* server of the instance, whose network cards change on the platform and  *)
(* whose declared networks change with the node properties.                *)
(***************************************************************************)

\* most network cards of a VM
MaxDevices == 3

TypeError == "TypeError"

\* the operation update has not returned: it polls the guest
Polling == "polling"

\* the network cards of the VM id at the platform state v, in device order:
\* [mac, network]
ethernet_cards(v, id) == v[id].devices

\* server_client.get_vm_networks(server_obj): name and mac of every card
get_vm_networks(v, id) ==
  [k \in 1..Len(ethernet_cards(v, id)) |->
     [name |-> ethernet_cards(v, id)[k].network,
      mac |-> ethernet_cards(v, id)[k].mac]]

\* the snapshot of server_obj.network and server_obj.summary.config
capture_configuration(v, id) ==
  [network |-> [k \in 1..Len(ethernet_cards(v, id)) |->
                  ethernet_cards(v, id)[k].network],
   numCpu |-> Some(v[id].cpus), memorySizeMB |-> Some(v[id].memory)]

\* runtime_properties[NETWORKS] = server_client.get_vm_networks(server_obj),
\* the last statement of store_server_details
store_server_networks(r, v, id) ==
  [r EXCEPT !.networks = get_vm_networks(v, id)]

\* a MAC address that no card of the VM and no persisted network has
fresh_mac(devices, networks) ==
  CHOOSE m \in 1..(Len(devices) + Len(networks) + 1) :
    /\ \A k \in 1..Len(devices) : devices[k].mac # m
    /\ \A k \in 1..Len(networks) : networks[k].mac # m

\* the index of the first persisted network with that MAC, 0 if there is none
RECURSIVE network_of_mac(_, _, _)
network_of_mac(networks, i, mac) ==
  IF i > Len(networks) THEN 0
  ELSE IF networks[i].mac = mac THEN i
  ELSE network_of_mac(networks, i + 1, mac)

\* a loop that leaves out the cards whose MAC is not persisted
existing_networks_skips_foreign(devices, networks) ==
  Bind(SelectSeq(devices,
                 LAMBDA d : network_of_mac(networks, 1, d.mac) # 0),
       LAMBDA matched :
    [k \in 1..Len(matched) |->
       <<"name", networks[network_of_mac(networks, 1, matched[k].mac)].name>>])

\* the loop of check_drift over the cards: the name of the persisted network
\* of each card, or a value that equals no name (uuid.uuid4()) for a card
\* whose MAC is not persisted
existing_networks(devices, networks) ==
  [k \in 1..Len(devices) |->
     Bind(network_of_mac(networks, 1, devices[k].mac), LAMBDA i :
       IF i = 0 THEN <<"uuid", k>> ELSE <<"name", networks[i].name>>)]

\* the name of the first declared network only
declared_names_first_only(networking) ==
  Bind(Get(networking, "connect_networks", <<>>), LAMBDA declared :
    [k \in 1..(IF declared = <<>> THEN 0 ELSE 1) |->
       Get(declared[k], "name", PyNone).v])

\* the names of the declared networks of the node properties:
\* network.get('name') for every entry of connect_networks
declared_names(networking) ==
  Bind(Get(networking, "connect_networks", <<>>), LAMBDA declared :
    [k \in 1..Len(declared) |-> Get(declared[k], "name", PyNone).v])

\* utils_check_drift(logger, existing_networks, new_networks): there is a
\* difference when the two lists do not hold the same names
networks_drift(existing, new_networks) ==
  {existing[k] : k \in 1..Len(existing)}
    # {<<"name", new_networks[k]>> : k \in 1..Len(new_networks)}

\* utils_check_drift(logger, expected_configuration, current_configuration)
configuration_drift(expected_configuration, current_configuration) ==
  expected_configuration # Some(current_configuration)

\* server.get(size) of the node properties, None when it is not declared
declared_size(server, size) == Get(server, size, None)

\* a test that takes a size that is not declared as one that differs
size_drift_undeclared(server, size, expected_configuration, field) ==
  declared_size(server, size) # Val(expected_configuration)[field]

\* the test of lines 1129-1131 for one size: the declared size is given and
\* differs from the expected one
size_drift(server, size, expected_configuration, field) ==
  /\ Given(declared_size(server, size))
  /\ declared_size(server, size) # Val(expected_configuration)[field]

\* the result of check_drift: the runtime properties r, the error and
\* whether drift is reported
Checked(err, what, r, drift) ==
  [err |-> err, what |-> what, rt |-> r, drift |-> drift]

\* check_drift from line 1087 on, for the server id
detect(id, r, server, networking) ==
  Bind(networks_drift(existing_networks(ethernet_cards(vms, id), r.networks),
                      declared_names(networking)),
       LAMBDA network_diff :
  Bind(IF network_diff THEN [r EXCEPT !.network_update = TRUE] ELSE r,
       LAMBDA r1 :
    IF /\ r.expected_configuration = None
       /\ Given(declared_size(server, "memory"))
            \/ Given(declared_size(server, "cpus"))
      THEN Checked(TypeError, "expected_configuration", r1, FALSE)
    ELSE
      Bind(\/ size_drift(server, "memory", r.expected_configuration,
                         "memorySizeMB")
           \/ size_drift(server, "cpus", r.expected_configuration, "numCpu"),
           LAMBDA spec_diff :
             IF network_diff \/ spec_diff
               THEN Checked(NoError,
                            IF network_diff THEN "network_update"
                                            ELSE "spec_update",
                            IF spec_diff THEN [r1 EXCEPT !.spec_update = TRUE]
                                         ELSE r1,
                            TRUE)
               ELSE Checked(NoError, "general", r1,
                            configuration_drift(
                              r.expected_configuration,
                              capture_configuration(vms, id))))))

\* check_drift ends
checked(c) ==
  /\ call' = Request("check_drift", c.err, c.what, <<>>, [drift |-> c.drift])
  /\ rt' = c.rt
  /\ UNCHANGED <<vms, cfg, nm, nw>>

check_drift ==
  IF rt.vsphere_server_id = None
    THEN checked(Checked(NonRecoverableError, "not_configured", rt, FALSE))
  ELSE IF get_server_by_id(Val(rt.vsphere_server_id)) = None
    THEN checked(Checked(AttributeError, "missing", rt, FALSE))
  ELSE checked(detect(Val(rt.vsphere_server_id), rt, cfg.server,
                      cfg.networking))

\* the names of the persisted networks of the cards whose MAC is persisted,
\* in device order (real_networks of update)
RECURSIVE real_networks(_, _, _)
real_networks(devices, i, networks) ==
  IF i > Len(devices) THEN <<>>
  ELSE Bind(network_of_mac(networks, 1, devices[i].mac), LAMBDA n :
         (IF n = 0 THEN <<>> ELSE <<networks[n].name>>)
           \o real_networks(devices, i + 1, networks))

\* x in list
In(x, list) == \E k \in 1..Len(list) : list[k] = x

\* [x for x in list if x not in other]
NotIn(list, other) == SelectSeq(list, LAMBDA x : ~In(x, other))

\* the cards that update removes: those of a persisted network that is in
\* to_remove and those whose MAC is not persisted
nics_for_remove(devices, networks, to_remove) ==
  SelectSeq(devices, LAMBDA device :
    Bind(network_of_mac(networks, 1, device.mac), LAMBDA n :
      IF n = 0 THEN TRUE ELSE In(networks[n].name, to_remove)))

\* the device change that removes a card
RemoveNic(device) ==
  [operation |-> "remove", mac |-> device.mac, network |-> device.network]

\* server_client._add_network(network, datacenter, netcnt): the device change
\* that adds a card of the network at the index netcnt
AddNic(network_name, netcnt) ==
  [operation |-> "add", network |-> network_name, index |-> netcnt]

\* server_client._get_connected_network_name(network): the name of the
\* network on the platform
get_connected_network_name(network) == network["name"].v

\* the loop of update over new_networks from entry i on: a device change
\* for every entry whose name is in to_add
RECURSIVE nics_to_add(_, _, _, _)
nics_to_add(new_networks, i, to_add, netcnt) ==
  IF i > Len(new_networks) THEN <<>>
  ELSE IF In(new_networks[i]["name"].v, to_add)
    THEN <<AddNic(get_connected_network_name(new_networks[i]), netcnt)>>
           \o nics_to_add(new_networks, i + 1, to_add, netcnt + 1)
    ELSE nics_to_add(new_networks, i + 1, to_add, netcnt)

\* device changes whose additions are numbered from the number of cards,
\* the removed ones included
device_changes_of_counting_removed(devices, networks, new_networks) ==
  Bind(real_networks(devices, 1, networks), LAMBDA real :
  Bind([k \in 1..Len(new_networks) |-> new_networks[k]["name"].v],
       LAMBDA new_network_names :
  Bind(nics_for_remove(devices, networks, NotIn(real, new_network_names)),
       LAMBDA removed :
    [k \in 1..Len(removed) |-> RemoveNic(removed[k])]
      \o nics_to_add(new_networks, 1, NotIn(new_network_names, real),
                     Len(devices)))))

\* lines 1170-1231 of update: the device changes for the cards devices, the
\* persisted networks and the resolved networks new_networks
device_changes_of(devices, networks, new_networks) ==
  Bind(real_networks(devices, 1, networks), LAMBDA real :
  Bind([k \in 1..Len(new_networks) |-> new_networks[k]["name"].v],
       LAMBDA new_network_names :
  Bind(nics_for_remove(devices, networks, NotIn(real, new_network_names)),
       LAMBDA removed :
    [k \in 1..Len(removed) |-> RemoveNic(removed[k])]
      \o nics_to_add(new_networks, 1, NotIn(new_network_names, real),
                     Len(devices) - Len(removed)))))

\* the cards after the reconfiguration task has applied the device changes
\* from change i on; a new card gets a MAC that is not in use
RECURSIVE reconfigured(_, _, _, _)
reconfigured(devices, networks, device_changes, i) ==
  IF i > Len(device_changes) THEN devices
  ELSE IF device_changes[i].operation = "remove"
    THEN reconfigured(
           SelectSeq(devices, LAMBDA d : d.mac # device_changes[i].mac),
           networks, device_changes, i + 1)
    ELSE reconfigured(
           Append(devices, [mac |-> fresh_mac(devices, networks),
                            network |-> device_changes[i].network]),
           networks, device_changes, i + 1)

\* server_obj.obj.ReconfigVM_Task(spec=vmconf) and _wait_for_task(task)
ReconfigVM_Task(v, id, networks, device_changes) ==
  [v EXCEPT ![id].devices = reconfigured(@, networks, device_changes, 1)]

\* the result of a part of update: [err, what, rt, vms, calls,
\* device_changes, new_networks]
Updated(err, what, r, v, calls) ==
  [err |-> err, what |-> what, rt |-> r, vms |-> v, calls |-> calls,
   device_changes |-> <<>>, new_networks |-> <<>>]

\* lines 1151-1165 of update, at the runtime properties r
update_spec(r, server) ==
  IF r.vsphere_server_id = None
    THEN Updated(KeyError, "vsphere_server_id", r, vms, <<>>)
  ELSE IF get_server_by_id(Val(r.vsphere_server_id)) = None
    THEN Updated(AttributeError, "missing", r, vms, <<"resize_server">>)
  ELSE
    Bind(server_client_resize_server(Val(r.vsphere_server_id),
                                     declared_size(server, "cpus"),
                                     declared_size(server, "memory")),
         LAMBDA v :
    Bind([r EXCEPT !.cpus = declared_size(server, "cpus"),
                   !.memory = declared_size(server, "memory")],
         LAMBDA r1 :
           IF r.expected_configuration = None
             THEN Updated(TypeError, "expected_configuration", r1, v,
                          <<"resize_server">>)
             ELSE Updated(NoError, "",
                    [r1 EXCEPT !.expected_configuration =
                       Some([Val(@) EXCEPT
                               !.memorySizeMB = declared_size(server, "memory"),
                               !.numCpu = declared_size(server, "cpus")])],
                    v, <<"resize_server">>)))

\* lines 1166-1259 of update, after the part st; fail tells whether the
\* reconfiguration task fails
update_network(st, networking, rels, fail) ==
  IF st.rt.vsphere_server_id = None
    THEN [st EXCEPT !.err = KeyError, !.what = "vsphere_server_id"]
  ELSE IF get_server_by_id(Val(st.rt.vsphere_server_id)) = None
    THEN [st EXCEPT !.err = AttributeError, !.what = "missing"]
  ELSE
    Bind(Val(st.rt.vsphere_server_id), LAMBDA id :
    Bind(handle_networks(st.rt.connected_nics, rels, networking), LAMBDA h :
    Bind([st.rt EXCEPT !.connected_nics = h.nics], LAMBDA r1 :
      IF h.err # NoError
        THEN [st EXCEPT !.err = h.err, !.what = h.what, !.rt = r1]
      ELSE
        Bind(device_changes_of(ethernet_cards(st.vms, id), r1.networks, h.nets),
             LAMBDA device_changes :
          IF device_changes # <<>> /\ fail
            THEN [st EXCEPT !.err = PlatformError, !.what = "reconfigure",
                            !.rt = r1, !.device_changes = device_changes,
                            !.calls = @ \o <<"ReconfigVM_Task",
                                             "wait_for_task">>]
            ELSE
              Bind(IF device_changes = <<>>
                     THEN st.vms
                     ELSE ReconfigVM_Task(st.vms, id, r1.networks,
                                          device_changes),
                   LAMBDA v :
                [err |-> NoError, what |-> "", vms |-> v,
                 rt |-> [store_server_networks(
                           store_server_details(r1, v, id), v, id)
                         EXCEPT !.expected_configuration =
                                  Some(capture_configuration(v, id))],
                 calls |-> st.calls
                   \o (IF device_changes = <<>> THEN <<>>
                       ELSE <<"ReconfigVM_Task", "wait_for_task">>)
                   \o <<"get_obj_by_id">>,
                 device_changes |-> device_changes,
                 new_networks |-> h.nets])))))

\* the loop of update over server_obj.guest.net from interface i on, lines
\* 1280-1287; st = [default_ip, manager_network_ip]
RECURSIVE new_ip_loop(_, _, _, _)
new_ip_loop(net, i, management_network_name, st) ==
  IF i > Len(net) THEN st
  ELSE
    new_ip_loop(net, i + 1, management_network_name,
      [default_ip |->
         IF Absent(st.default_ip) THEN get_ip_from_vsphere_nic_ips(net[i])
                                  ELSE st.default_ip,
       manager_network_ip |->
         IF \/ Absent(st.manager_network_ip)
            \/ /\ ~Absent(management_network_name)
               /\ net[i].network = Val(management_network_name)
           THEN get_ip_from_vsphere_nic_ips(net[i])
           ELSE st.manager_network_ip])

\* runtime_properties[IP] = manager_network_ip or default_ip, line 1288
new_ip(net, management_network_name) ==
  Bind(new_ip_loop(net, 1, management_network_name,
                   [default_ip |-> None, manager_network_ip |-> None]),
       LAMBDA st : IF ~Absent(st.manager_network_ip)
                     THEN st.manager_network_ip ELSE st.default_ip)

\* the management network of lines 1265-1271: connect_networks of the node
\* properties is the list that handle_networks has extended and validated in
\* place, if the properties have that key
management_network_of(networking, new_networks) ==
  IF "connect_networks" \notin DOMAIN networking
    THEN None
    ELSE Bind(flagged_networks("connect_networks" :> new_networks,
                               "management"),
              LAMBDA management_networks :
                IF Len(management_networks) = 1
                  THEN Some(management_networks[1]) ELSE None)

\* the bounds of the model hold of the result st of update
WithinDevices(st) ==
  /\ Within(st)
  /\ \A id \in 1..Len(st.vms) : Len(st.vms[id].devices) <= MaxDevices

\* update ends, or goes on to poll the guest, with the result st
updated(st, result, args) ==
  /\ WithinDevices(st)
  /\ call' = Request("update", result, st.what, st.calls,
                     args @@ [device_changes |-> st.device_changes])
  /\ rt' = st.rt
  /\ vms' = st.vms
  /\ UNCHANGED <<cfg, nm, nw>>

\* the operation update up to the poll of the guest
update(server, networking, rels, fail) ==
  \E r0 \in {[rt EXCEPT !.spec_update = FALSE, !.network_update = FALSE]} :
  \E args \in {[spec_update |-> rt.spec_update,
                network_update |-> rt.network_update,
                management_network_name |-> None,
                slept |-> FALSE]} :
  \E s1 \in {IF rt.spec_update THEN update_spec(r0, server)
                               ELSE Updated(NoError, "", r0, vms, <<>>)} :
    IF s1.err # NoError \/ ~rt.network_update
      THEN updated(s1, s1.err, args)
    ELSE
      \E s2 \in {update_network(s1, networking, rels, fail)} :
        IF s2.err # NoError \/ s2.new_networks = <<>>
          THEN updated(s2, s2.err, args)
          ELSE updated(s2, Polling,
                 [args EXCEPT !.management_network_name =
                    management_network_of(networking, s2.new_networks)])

\* one turn of 'while not server_obj.guest.net' of update, which re-reads the
\* VM and sleeps (slept tells an odd from an even number of turns), and,
\* once the guest reports an interface, the end of update
update_polls ==
  /\ call.op = "update"
  /\ call.result = Polling
  /\ \E id \in {Val(rt.vsphere_server_id)} :
       IF vms[id].guest.net = <<>>
         THEN /\ call' = [call EXCEPT !.args.slept = ~@]
              /\ UNCHANGED <<rt, vms, cfg, nm, nw>>
         ELSE /\ call' = [call EXCEPT !.result = NoError,
                                      !.args.slept = FALSE]
              /\ rt' = [rt EXCEPT !.ip =
                          Some(new_ip(vms[id].guest.net,
                                      call.args.management_network_name))]
              /\ UNCHANGED <<vms, cfg, nm, nw>>

\* the revisions of the declared networks and related NICs of the node, in
\* the order of the deployment updates: one network, a plain and an external
\* network, two external networks (which handle_networks rejects), an
\* external network and a related NIC of another network, a network declared
\* from_relationship with its related NIC, no network
Revisions ==
  <<[networking |-> "connect_networks" :> <<Declared("a")>>, rels |-> <<>>],
    [networking |-> "connect_networks" :> <<Declared("a"), External("b")>>,
     rels |-> <<>>],
    [networking |-> "connect_networks" :> <<External("a"), External("b")>>,
     rels |-> <<>>],
    [networking |-> "connect_networks" :> <<External("b")>>,
     rels |-> <<RelNic("nic1", Some(Declared("a")), None)>>],
    [networking |-> "connect_networks" :>
                      <<Declared("a") @@ "from_relationship" :> PyTrue>>,
     rels |-> <<RelNic("nic1", Some(Declared("a")), None)>>],
    [networking |-> <<>>, rels |-> <<>>]>>

\* the node properties of a revision
Revision(server, i) ==
  Configuration(server, Revisions[i], "linux", FALSE) @@ [revision |-> i]

\* the server property without declared sizes, with a declared number of
\* cpus, with a declared memory
DriftServers ==
  {"template" :> "tpl", "template" :> "tpl" @@ "cpus" :> Some(4),
   "template" :> "tpl" @@ "memory" :> Some(2048)}

\* what the guest reports once it reports its interfaces
ReportedNets ==
  {<<[network |-> "b", ip |-> Some(GuestIp(1))],
     [network |-> "a", ip |-> Some(GuestIp(2))]>>}

\* the instance after create, start and poststart: its VM w-01 has a card
\* for every resolved network, in their order
DriftInit ==
  /\ \E server \in DriftServers, i \in 1..Len(Revisions) :
       /\ cfg = Revision(server, i)
       /\ handle_networks(None, cfg.rels, cfg.networking).err = NoError
  /\ nm = NoName
  /\ nw = NoNet
  /\ call = Request("none", NoError, "", <<>>, <<>>)
  /\ \E h \in {handle_networks(None, cfg.rels, cfg.networking)} :
     \E v \in {<<[name |-> <<"w", "-", "0", "1">>, state |-> "on",
                  origin |-> "plugin", cpus |-> 2, memory |-> 1024,
                  devices |-> [k \in 1..Len(h.nets) |->
                                 [mac |-> k, network |-> h.nets[k]["name"].v]],
                  guest |-> [running |-> TRUE, summary |-> Some(None),
                             net |-> <<>>]]>>} :
       /\ vms = v
       /\ rt = [NoRuntimeProperties EXCEPT
                  !.vsphere_server_id = Some(1),
                  !.name = Some(<<"w", "-", "0", "1">>),
                  !.connected_nics = h.nics]
               @@ [networks |-> get_vm_networks(v, 1),
                   expected_configuration |-> Some(capture_configuration(v, 1)),
                   network_update |-> FALSE, spec_update |-> FALSE,
                   cpus |-> None, memory |-> None, ip |-> None]

\* no operation is running on the instance
NoOperation == call.result # Polling

CheckDrift == NoOperation /\ check_drift

UpdateServer ==
  /\ NoOperation
  /\ \E fail \in BOOLEAN : update(cfg.server, cfg.networking, cfg.rels, fail)

UpdatePolls == update_polls

\* the node properties change with a deployment update
PropertiesUpdated ==
  /\ NoOperation
  /\ \E i \in (cfg.revision + 1)..Len(Revisions) :
       cfg' = Revision(cfg.server, i)
  /\ call' = Request("none", NoError, "", <<>>, <<>>)
  /\ UNCHANGED <<rt, vms, nm, nw>>

\* another party changes the cards of the VM id to devices
cards_changed(id, devices) ==
  /\ NoOperation
  /\ Exists(id)
  /\ vms' = [vms EXCEPT ![id].devices = devices]
  /\ call' = Request("none", NoError, "", <<>>, <<>>)
  /\ UNCHANGED <<rt, cfg, nm, nw>>

\* every card of the VM id has the MAC of a persisted network
AllPersisted(id) ==
  \A k \in 1..Len(vms[id].devices) :
    network_of_mac(rt.networks, 1, vms[id].devices[k].mac) # 0

NicAttached ==
  \E id \in 1..Len(vms), network \in GuestNetworks :
    /\ Len(vms[id].devices) < MaxDevices
    /\ AllPersisted(id)
    /\ cards_changed(id, Append(vms[id].devices,
                                [mac |-> fresh_mac(vms[id].devices, rt.networks),
                                 network |-> network]))

NicDetached ==
  \E id \in 1..Len(vms) :
    \E k \in 1..Len(vms[id].devices) :
      cards_changed(id, SelectSeq(vms[id].devices,
                                  LAMBDA d : d.mac # vms[id].devices[k].mac))

NetReported ==
  \E id \in 1..Len(vms), net \in ReportedNets :
    /\ vms[id].guest.net = <<>>
    /\ vms' = [vms EXCEPT ![id].guest.net = net]
    /\ call' = IF NoOperation THEN Request("none", NoError, "", <<>>, <<>>)
                              ELSE call
    /\ UNCHANGED <<rt, cfg, nm, nw>>

DriftNext ==
  \/ CheckDrift \/ UpdateServer \/ UpdatePolls
  \/ PropertiesUpdated \/ NicAttached \/ NicDetached \/ NetReported

SpecDrift == DriftInit /\ [][DriftNext]_vars

(***************************************************************************)
(* Properties of check_drift and update.                                   *)
(***************************************************************************)

\* the server of the instance
Server == Val(rt.vsphere_server_id)

\* the step is a check_drift
Checks == call'.op = "check_drift"

\* the step is an update up to its poll of the guest
Updates == NoOperation /\ call'.op = "update"

\* the cards of the server whose MAC is not persisted
ForeignNics ==
  SelectSeq(ethernet_cards(vms, Server),
            LAMBDA d : network_of_mac(rt.networks, 1, d.mac) = 0)

\* C23: while a card of the server has a MAC that no persisted network has,
\* every check_drift reports drift and marks the network update, and the
\* update that follows it and whose declared networks are accepted puts the
\* removal of that card in its device changes.
C23_ForeignNicDriftsAndIsRemoved ==
  [][/\ (Checks /\ ForeignNics # <<>>)
          => /\ call'.result = NoError
             /\ call'.args.drift
             /\ rt'.network_update
     /\ (Updates /\ call.op = "check_drift" /\ ForeignNics # <<>>
           /\ call'.result # NonRecoverableError)
          => \A k \in 1..Len(ForeignNics) :
               In(RemoveNic(ForeignNics[k]), call'.args.device_changes)]_vars

\* an update has removed a card of a declared network: a card whose MAC was
\* not persisted
C23_ForeignNicRemoved ==
  /\ call.op = "update"
  /\ call.result \in {NoError, Polling}
  /\ \E k \in 1..Len(call.args.device_changes) :
       /\ call.args.device_changes[k].operation = "remove"
       /\ In(call.args.device_changes[k].network,
             declared_names(cfg.networking))

\* the step is the check_drift that follows an update whose network part has
\* succeeded, with nothing changed in between
ChecksAfterNetworkUpdate ==
  /\ Checks
  /\ call.op = "update"
  /\ call.result = NoError
  /\ call.args.network_update

\* C24: the check_drift that follows an update whose network part has
\* succeeded, with no change of the platform or of the properties in
\* between, reports no drift, whatever the declared networks and related
\* NICs are (for a server without declared sizes).
C24_NoDriftAfterNetworkUpdate ==
  [][(ChecksAfterNetworkUpdate /\ DOMAIN cfg.server = {"template"})
       => ~call'.args.drift]_vars

\* update in its poll of the guest takes its next turn: the process of the
\* operation keeps running
SpecDriftLive == SpecDrift /\ WF_vars(UpdatePolls)

\* update polls the guest for its interfaces
UpdatePolling == call.op = "update" /\ call.result = Polling

\* C25: an update that polls the guest for its interfaces returns or fails,
\* even if the guest never reports an interface.
C25_UpdateReturns == UpdatePolling ~> ~UpdatePolling

(***************************************************************************)
(* Failures of create and start, checked under Spec.                       *)
(***************************************************************************)

\* C26: a create or start that fails with NonRecoverableError (a rejected
\* name or network, a missing external resource, no template) leaves the
\* runtime properties as they were before the invocation.
C26_RejectedWritesNothing ==
  [][(Invoked({"create", "start"}) /\ call'.result = NonRecoverableError)
       => rt' = rt]_vars

(***************************************************************************)
(* Merge of the related networks and defaults of an accepted network,      *)
(* checked under SpecNet.                                                  *)
(***************************************************************************)

\* the declared networks of the input
DeclaredNetworks == Get(nw.networking, "connect_networks", <<>>)

\* the name of the network of a related NIC
RelatedName(rel_nic) ==
  IF "name" \in DOMAIN Val(rel_nic.connected_network)
    THEN Val(rel_nic.connected_network)["name"]
    ELSE Val(rel_nic.name)

\* the declared networks that take the network of the related NIC: those of
\* its name that are flagged from_relationship
TakenBy(rel_nic) ==
  {i \in 1..Len(DeclaredNetworks) :
     /\ DeclaredNetworks[i]["name"] = RelatedName(rel_nic)
     /\ Truthy(Get(DeclaredNetworks[i], "from_relationship", PyNone))}

\* C27: the merged list holds the declared networks and one more entry for
\* every related network that no declared network of its name flagged
\* from_relationship takes; a related network that is merged into a
\* declared entry adds no entry.
C27_MergedNetworkOnce ==
  (Handled /\ Merged.err = NoError)
    => Len(Merged.nets)
         = Len(DeclaredNetworks)
             + Cardinality({k \in 1..Len(nw.rels) : TakenBy(nw.rels[k]) = {}})

\* the documented default of a schema key
Documented(key) ==
  IF key = "use_dhcp" THEN PyTrue
  ELSE IF key \in {"from_relationship", "external", "management",
                   "switch_distributed", "nsx_t_switch"} THEN PyFalse
  ELSE PyNone

\* the key is not boolean and the network gives it a falsy value
FalsyNonBoolean(n, key) ==
  /\ key \in DOMAIN n
  /\ key \notin {"from_relationship", "external", "management",
                 "switch_distributed", "nsx_t_switch", "use_dhcp"}
  /\ ~Truthy(n[key])

\* C28: the network that validate_connect_network returns has every schema
\* key and no other; a key that the given network lacks, or that is not
\* boolean and has a falsy value, has its documented default, and every
\* other key has the value that was given.
C28_DefaultsFilled ==
  (Validated /\ ~nw.v.err)
    => /\ DOMAIN nw.v.net = SchemaKeys
       /\ \A key \in SchemaKeys :
            nw.v.net[key] =
              IF key \notin DOMAIN nw.net \/ FalsyNonBoolean(nw.net, key)
                THEN Documented(key) ELSE nw.net[key]

\* an accepted network that gave external and a falsy ip and no use_dhcp:
\* external is kept, ip is None and use_dhcp is True
C28_DefaultsAndGivenValues ==
  /\ Validated
  /\ ~nw.v.err
  /\ "use_dhcp" \notin DOMAIN nw.net
  /\ nw.v.net["use_dhcp"] = PyTrue
  /\ "external" \in DOMAIN nw.net
  /\ nw.net["external"] = PyTrue
  /\ nw.v.net["external"] = PyTrue
  /\ FalsyNonBoolean(nw.net, "ip")
  /\ nw.v.net["ip"] = PyNone
  /\ nw.v.net["gateway"] = PyNone
  /\ nw.v.net["management"] = PyFalse

(***************************************************************************)
(* The device changes of update, checked under SpecDrift.                  *)
(***************************************************************************)

\* the elements of a list
Range(list) == {list[k] : k \in 1..Len(list)}

\* the step is an update that has computed its device changes
Reconciles ==
  /\ Updates
  /\ rt.network_update
  /\ call'.result \in {NoError, Polling, PlatformError}

\* the names of the networks that handle_networks resolves for the node
ResolvedNames ==
  {n["name"].v :
     n \in Range(handle_networks(rt.connected_nics, cfg.rels,
                                 cfg.networking).nets)}

\* the name of the persisted network of a card, for a card whose MAC is
\* persisted
PersistedName(d) == rt.networks[network_of_mac(rt.networks, 1, d.mac)].name

\* the cards of the server whose MAC is persisted
MatchedNics ==
  SelectSeq(ethernet_cards(vms, Server),
            LAMBDA d : network_of_mac(rt.networks, 1, d.mac) # 0)

\* the device changes of the step with that operation
Changes(operation) ==
  SelectSeq(call'.args.device_changes, LAMBDA c : c.operation = operation)

\* C29: the device changes of update remove exactly the cards whose MAC is
\* not persisted and the cards whose persisted network is not among the
\* resolved networks, each once, and add exactly one card for every
\* resolved network that no card with a persisted MAC is attached to.
C29_RemovesAndAddsExactly ==
  [][Reconciles =>
       /\ {c.mac : c \in Range(Changes("remove"))}
            = {d.mac : d \in Range(ForeignNics)}
                \cup {d.mac : d \in {m \in Range(MatchedNics) :
                                       PersistedName(m) \notin ResolvedNames}}
       /\ Len(Changes("remove"))
            = Cardinality({c.mac : c \in Range(Changes("remove"))})
       /\ {c.network : c \in Range(Changes("add"))}
            = ResolvedNames \ {PersistedName(m) : m \in Range(MatchedNics)}
       /\ Len(Changes("add"))
            = Cardinality({c.network : c \in Range(Changes("add"))})]_vars

\* how often the operation of the step has made the platform call
Requests(name) == Len(SelectSeq(call'.calls, LAMBDA c : c = name))

\* the platform calls of the step that follow its reconfiguration request
AfterReconfigure ==
  SubSeq(call'.calls,
         1 + (CHOOSE k \in 1..Len(call'.calls) :
                call'.calls[k] = "ReconfigVM_Task"),
         Len(call'.calls))

\* the reconfiguration request of an update: at most one, none for an empty
\* device-change list, one for any other list, with the removals before the
\* additions and the additions numbered consecutively from `first`, and
\* with the wait for the task before any other platform call
OneRequest(first) ==
  /\ Requests("ReconfigVM_Task") <= 1
  /\ Requests("ReconfigVM_Task") = 1 <=> call'.args.device_changes # <<>>
  /\ call'.args.device_changes = Changes("remove") \o Changes("add")
  /\ \A k \in 1..Len(Changes("add")) :
       Changes("add")[k].index = first + k - 1
  /\ Requests("ReconfigVM_Task") = 1
       => /\ Head(AfterReconfigure) = "wait_for_task"
          /\ call'.result = PlatformError => Requests("get_obj_by_id") = 0
          /\ call'.result # PlatformError
               => Tail(AfterReconfigure) = <<"get_obj_by_id">>

\* C30 as stated: update makes at most one reconfiguration request, none
\* for an empty list; removals come before additions; the additions are
\* numbered consecutively from the number of cards the VM has; the wait for
\* the task precedes the re-read of the VM.
C30_OneRequestFromDeviceCount ==
  [][Reconciles => OneRequest(Len(ethernet_cards(vms, Server)))]_vars

\* C30 amended: as above, but the additions are numbered consecutively from
\* the number of cards that remain once the removals of the same request
\* are taken off.
C30_OneRequestFromRemainingCount ==
  [][Reconciles
       => OneRequest(Len(ethernet_cards(vms, Server))
                       - Len(Changes("remove")))]_vars

\* an update has removed one card and added one in a single request, and
\* has re-read the VM after the wait for the task
C30_RemovedAndAddedInOneRequest ==
  /\ call.op = "update"
  /\ call.result \in {NoError, Polling}
  /\ Len(call.args.device_changes) = 2
  /\ call.args.device_changes[1].operation = "remove"
  /\ call.args.device_changes[2].operation = "add"
  /\ call.calls = <<"ReconfigVM_Task", "wait_for_task", "get_obj_by_id">>

(***************************************************************************)
(* Re-read of the VM after a change, checked under SpecDrift.              *)
(***************************************************************************)

\* the platform calls that change the VM
Mutating == {"resize_server", "ReconfigVM_Task"}

\* C31: in an update that succeeds, every platform call that changes the VM
\* is followed by a re-read of the VM that bypasses the cache, before the
\* operation ends and its runtime properties are stored.
C31_RereadAfterMutation ==
  [][(Updates /\ call'.result \in {NoError, Polling})
       => \A i \in 1..Len(call'.calls) :
            call'.calls[i] \in Mutating
              => \E j \in (i + 1)..Len(call'.calls) :
                   call'.calls[j] = "get_obj_by_id"]_vars

(***************************************************************************)
(* The minimum wait of get_state in time: the clock, the persisted started   *)
(* of the wait and the seconds that every invocation sleeps. What the rest *)
(* of get_state finds on the platform is an input here (outcome).          *)
(***************************************************************************)

\* the latest time of the clock, in seconds
MaxClock == 60

ten_sec_to_sleep == 10

\* the seconds between two looks at the clock
ClockStep == ten_sec_to_sleep \div 2

\* the loop 'while count < minimum_wait_time' of the first invocation: the
\* seconds it sleeps from count on
RECURSIVE sleep_in_turns(_, _)
sleep_in_turns(count, minimum_wait_time) ==
  IF count < minimum_wait_time
    THEN ten_sec_to_sleep
           + sleep_in_turns(count + ten_sec_to_sleep, minimum_wait_time)
    ELSE 0

\* the else branch of arrived_at_min_wait_time: the seconds it sleeps when
\* the start of the wait is persisted
sleep_remainder(started, now, minimum_wait_time) ==
  IF minimum_wait_time > now - started
    THEN minimum_wait_time - (now - started) ELSE 0

\* arrived_at_min_wait_time(minimum_wait_time) at the time now and the
\* persisted start of the wait (optional): [started, slept]
min_wait(started, now, minimum_wait_time) ==
  IF started = None
    THEN [started |-> Some(now),
          slept |-> sleep_in_turns(0, minimum_wait_time)]
    ELSE [started |-> started,
          slept |-> sleep_remainder(Val(started), now, minimum_wait_time)]

\* lines 821-822 of get_state
settle(started, now, minimum_wait_time) ==
  IF minimum_wait_time # None /\ Val(minimum_wait_time) > 0
    THEN min_wait(started, now, Val(minimum_wait_time))
    ELSE [started |-> started, slept |-> 0]

\* what the rest of get_state comes to: the server is ready (or its guest
\* has no summary), it is not started and need not be, its addresses are
\* not there yet, it does not exist
WaitOutcomes == {"ready", "not_started", "retry", "missing"}

\* get_state at the time call.args.now: settle, then the rest; only the
\* successful end of lines 849 and 965 pops the start of the wait
get_state_waits(minimum_wait_time, outcome) ==
  \E w \in {settle(rt.min_wait_time_start, call.args.now,
                    minimum_wait_time)} :
    /\ call.args.now + w.slept <= MaxClock
    /\ rt' = [rt EXCEPT !.min_wait_time_start =
                          IF outcome = "ready" THEN None ELSE w.started]
    /\ call' = Request("get_state",
                       CASE outcome = "retry" -> OperationRetry
                         [] outcome = "missing" -> NonRecoverableError
                         [] OTHER -> NoError,
                       outcome, <<>>,
                       [now |-> call.args.now + w.slept,
                        slept |-> w.slept,
                        total |-> call.args.total + w.slept,
                        first |-> IF call.args.first = None
                                    THEN w.started ELSE call.args.first])
    /\ UNCHANGED <<vms, cfg, nm, nw>>

MinimumWaitTimes == {None, Some(0), Some(15), Some(20)}

\* an instance that no get_state was invoked on, at time 0
WaitInit ==
  /\ rt = NoRuntimeProperties @@ [min_wait_time_start |-> None]
  /\ vms = <<>>
  /\ cfg \in {NoConfiguration @@ [minimum_wait_time |-> m] :
               m \in MinimumWaitTimes}
  /\ call = Request("none", NoError, "", <<>>,
                    [now |-> 0, slept |-> 0, total |-> 0, first |-> None])
  /\ nm = NoName
  /\ nw = NoNet

GetStateWaits ==
  \E outcome \in WaitOutcomes :
    get_state_waits(cfg.minimum_wait_time, outcome)

\* time passes between two invocations
TimePasses ==
  /\ call.args.now + ClockStep <= MaxClock
  /\ call' = [call EXCEPT !.args.now = @ + ClockStep]
  /\ UNCHANGED <<rt, vms, cfg, nm, nw>>

WaitNext == GetStateWaits \/ TimePasses

SpecWait == WaitInit /\ [][WaitNext]_vars

\* the minimum wait of the node, 0 when none is configured
ConfiguredWait ==
  IF cfg.minimum_wait_time = None THEN 0 ELSE Val(cfg.minimum_wait_time)

\* C32: the seconds that all get_state invocations on the instance have
\* slept for the minimum wait do not exceed minimum_wait_time, and an
\* invocation that follows the one that recorded the start of the wait
\* sleeps no more than what is left of minimum_wait_time since that started.
C32_SettleWaitOnce ==
  [][call'.op = "get_state"
       => /\ call'.args.total <= ConfiguredWait
          /\ call.args.first # None
               => call'.args.slept
                    <= sleep_remainder(Val(call.args.first), call.args.now,
                                       ConfiguredWait)]_vars

(***************************************************************************)
(* Detection of drift, checked under SpecDrift.                            *)
(***************************************************************************)

\* the names of the persisted networks of the cards whose MAC is persisted
AttachedNames == {PersistedName(d) : d \in Range(MatchedNics)}

\* the names of connect_networks of the node properties
DeclaredNames ==
  {n["name"].v : n \in Range(Get(cfg.networking, "connect_networks", <<>>))}

\* the attached networks are not the declared ones, or a card is foreign
NetworksDiffer == AttachedNames # DeclaredNames \/ ForeignNics # <<>>

\* C33: check_drift marks a network update (sets network_update and
\* reports drift) when the names of the attached networks are not the
\* declared names or a card has a MAC that is not persisted; otherwise it
\* marks none and leaves network_update as it is.
C33_NetworkUpdateIffNamesDiffer ==
  [][Checks =>
       IF NetworksDiffer
         THEN /\ rt'.network_update
              /\ call'.what = "network_update"
              /\ call'.args.drift
         ELSE /\ rt'.network_update = rt.network_update
              /\ call'.what # "network_update"]_vars

\* check_drift has marked a network update although every card has a
\* persisted MAC: a declared network is not attached, or an attached one is
\* not declared
C33_MarkedWithoutForeignNic ==
  /\ call.op = "check_drift"
  /\ call.what = "network_update"
  /\ rt.network_update
  /\ ForeignNics = <<>>
  /\ AttachedNames # DeclaredNames
  /\ AttachedNames # {}
  /\ DeclaredNames # {}

\* the declared size of the node, when one is declared
DeclaredSize(size) == Get(cfg.server, size, None)

\* the declared size is not the expected one
SizeDiffers(size, field) ==
  /\ DeclaredSize(size) # None
  /\ DeclaredSize(size) # Val(rt.expected_configuration)[field]

SizesDiffer ==
  SizeDiffers("memory", "memorySizeMB") \/ SizeDiffers("cpus", "numCpu")

\* C34: check_drift marks a spec update and reports drift when the declared
\* memory is not the expected memorySizeMB or the declared cpus is not the
\* expected numCpu, and marks none otherwise; when neither the networks nor
\* the sizes differ its result is whether the expected configuration
\* differs from the one captured from the VM.
C34_SpecUpdateIffSizesDiffer ==
  [][Checks =>
       /\ IF SizesDiffer
            THEN rt'.spec_update /\ call'.args.drift
            ELSE rt'.spec_update = rt.spec_update
       /\ (~SizesDiffer /\ ~NetworksDiffer)
            => /\ call'.what = "general"
               /\ call'.args.drift
                    <=> Val(rt.expected_configuration)
                          # capture_configuration(vms, Server)]_vars

\* check_drift has marked a spec update and no network update
C34_SpecUpdateMarked ==
  /\ call.op = "check_drift"
  /\ call.what = "spec_update"
  /\ call.args.drift
  /\ rt.spec_update
  /\ ~rt.network_update
  /\ SizesDiffer

\* check_drift has found neither networks nor sizes that differ and has
\* reported the difference of the expected and the captured configuration
C34_StructuralDriftReported ==
  /\ call.op = "check_drift"
  /\ call.what = "general"
  /\ call.args.drift
  /\ ~SizesDiffer
  /\ ~NetworksDiffer

(***************************************************************************)
(* start on a VM that exists, checked under Spec.                          *)
(***************************************************************************)

\* the step is a start whose look-up has found the VM of the instance
StartsExisting == Invoked({"start"}) /\ call'.found # None

\* C35: a start whose look-up finds the VM does not call create_server; its
\* first platform call is update_server; it calls start_server, right after
\* update_server, when enable_start_vm is true and not otherwise, and the VM
\* keeps its power state when start_server is not called.
C35_StartUpdatesThenPowersOn ==
  [][StartsExisting =>
       /\ ~Called(call', "create_server")
       /\ Head(call'.calls) = "update_server"
       /\ Called(call', "start_server") <=> call'.enable_start_vm
       /\ call'.enable_start_vm => call'.calls[2] = "start_server"
       /\ ~call'.enable_start_vm
            => vms'[Val(call'.found)].state = vms[Val(call'.found)].state]_vars

\* start has found the VM powered off, has updated it and, as
\* enable_start_vm is false, has left it off
C35_ExistingLeftOff ==
  /\ call.op = "start"
  /\ call.found # None
  /\ call.result = NoError
  /\ ~call.enable_start_vm
  /\ Head(call.calls) = "update_server"
  /\ vms[Val(call.found)].state = "off"

\* C36: once an id is persisted, a start or a stop that does not follow a
\* delete leaves it as it is, also when the VM it names has disappeared from
\* the platform since the last invocation.
C36_IdNeverChanges ==
  [][(rt.vsphere_server_id # None /\ call.op # "delete"
        /\ Invoked({"start", "stop"}))
       => rt'.vsphere_server_id = rt.vsphere_server_id]_vars
\* the step is the check_drift that follows an update whose spec part has
\* succeeded, with no change of the platform or of the properties in between
ChecksAfterSpecUpdate ==
  /\ Checks
  /\ call.op = "update"
  /\ call.result = NoError
  /\ call.args.spec_update

\* C37: the check_drift that follows an update whose spec part has succeeded
\* and that finds the declared networks attached reports no drift, also when
\* only cpus or only memory is declared.
C37_NoDriftAfterSpecUpdate ==
  [][(ChecksAfterSpecUpdate /\ call'.what # "network_update")
       => ~call'.args.drift]_vars

\* the operations on an existing VM that change its power state or its
\* snapshots
PowerOrSnapshot ==
  Snapshots \cup {"shutdown_guest", "freeze_suspend", "freeze_resume"}

\* C38: on an instance marked externally managed, shutdown_guest,
\* freeze_suspend, freeze_resume and the snapshot operations make no call on
\* the platform and leave the VM as it is (stop and delete without the force
\* flag are the subject of C2).
C38_ExternalVmUntouched ==
  [][(rt.external /\ Invoked(PowerOrSnapshot))
       => call'.calls = <<>> /\ vms' = vms]_vars

\* C39: after a check_drift, network_update is set exactly when that
\* check_drift has found the networks to differ, and spec_update is set
\* exactly when it has found the sizes to differ.
C39_FlagsTrackLatestCheck ==
  [][Checks =>
       /\ rt'.network_update <=> NetworksDiffer
       /\ rt'.spec_update <=> SizesDiffer]_vars

\* C40: the persisted list of connected NICs holds the id of each related NIC
\* at most once, however often the networks of the instance have been
\* resolved.
C40_ConnectedNicsOnce ==
  rt.connected_nics # None
    => \A i, j \in 1..Len(Val(rt.connected_nics)) :
         Val(rt.connected_nics)[i] = Val(rt.connected_nics)[j] => i = j

====
